---- MODULE Spec2Model ----
(***************************************************************************)
(* Binary tic-tac-toe ("Jogo da Velha Binario"): the rules engine          *)
(* (BinaryGameLogic) and the automated player '0' (BinaryAIPlayer).        *)
(*                                                                         *)
(* A board is a function 0..8 -> {null, "0", "1"}, indexed as the source   *)
(* indexes its array.  JS arrays of positions are sequences (1-based).     *)
(* Math.random() returns a value kept in hundredths (0.25 is 25), as the   *)
(* difficulty is (0.88 is 88).  An operator of BinaryAIPlayer that draws   *)
(* takes `random`, the values Math.random() returns to the calls that      *)
(* BinaryAIPlayer makes itself (calculateBestMove, getOpeningStrategy,     *)
(* getHeuristicMove), in the order of those calls, and reports how many of *)
(* them it `read`.  checkGameEnd also calls Math.random(), in              *)
(* getVictoryMessage, each time it finds a complete pattern: that value    *)
(* chooses the text of the message only, which is not kept here, so these  *)
(* calls are neither in `random` nor counted in `read`.  Within one call   *)
(* of calculateBestMove or getStrategicMove they all come after the last   *)
(* value the choice reads: getOpeningStrategy checks no board, the         *)
(* difficulty is compared before the search starts, and getHeuristicMove   *)
(* is reached only when findImmediateWin met no complete pattern.          *)
(***************************************************************************)
EXTENDS Integers, Sequences, FiniteSets, TLC

-----------------------------------------------------------------------------
(* Values *)

\* JS null in a cell or in a winner field
null == "null"

\* JS null where the source returns an array or nothing (simulateWrite, winningCombination)
nullArray == << >>

\* JS undefined, as a position: availablePositions[0] of an empty array
undefined == -2

\* Infinity / -Infinity of the search: beyond every score, which lie in -10..10
Infinity == 1000

Positions == 0 .. 8
Bits == {"0", "1"}
Cells == Bits \cup {null}
Boards == [Positions -> Cells]
EmptyBoard == [i \in Positions |-> null]

Max(a, b) == IF a >= b THEN a ELSE b
Min(a, b) == IF a <= b THEN a ELSE b

\* Array.prototype.includes on an array of positions
includes(array, x) == \E k \in 1 .. Len(array) : array[k] = x

-----------------------------------------------------------------------------
(* Math.random() *)

\* granularity of the random source: the draws are 0, 1/RandomSteps, ..., (RandomSteps-1)/RandomSteps
\* and 0.99, in hundredths; 0.99 is above every difficulty below 1 (the 0.88 of the
\* constructor), 0 below every difficulty above 0
RandomSteps == 4

Draws == {(100 * k) \div RandomSteps : k \in 0 .. RandomSteps - 1} \cup {99}

\* r/100 < num/den
LessThan(r, num, den) == r * den < num * 100

\* Math.floor((r/100) * length)
FloorTimes(r, length) == (r * length) \div 100

-----------------------------------------------------------------------------
(* BinaryGameLogic *)

winningPatterns ==
    << <<0, 1, 2>>, <<3, 4, 5>>, <<6, 7, 8>>,
       <<0, 3, 6>>, <<1, 4, 7>>, <<2, 5, 8>>,
       <<0, 4, 8>>, <<2, 4, 6>> >>

\* the for-loop of checkVictoryPatterns: index of the first complete pattern from k on, 0 if none
RECURSIVE firstPattern(_, _)
firstPattern(boardState, k) ==
    IF k > Len(winningPatterns) THEN 0
    ELSE LET a == winningPatterns[k][1]
             b == winningPatterns[k][2]
             c == winningPatterns[k][3]
         IN IF /\ boardState[a] # null
               /\ boardState[a] = boardState[b]
               /\ boardState[a] = boardState[c]
            THEN k
            ELSE firstPattern(boardState, k + 1)

checkVictoryPatterns(boardState) ==
    LET k == firstPattern(boardState, 1)
    IN IF k # 0
       THEN [hasWinner |-> TRUE,
             winner |-> boardState[winningPatterns[k][1]],
             winningPattern |-> winningPatterns[k]]
       ELSE [hasWinner |-> FALSE, winner |-> null, winningPattern |-> nullArray]

isBufferFull(boardState) == \A i \in Positions : boardState[i] # null

\* a variant that looks for a full board before it looks for a complete pattern
checkGameEndFullFirst(boardState) ==
    LET victoryResult == checkVictoryPatterns(boardState)
    IN IF isBufferFull(boardState)
       THEN [isGameOver |-> TRUE, winner |-> "draw",
             winningCombination |-> nullArray, type |-> "overflow"]
       ELSE IF victoryResult.hasWinner
       THEN [isGameOver |-> TRUE,
             winner |-> victoryResult.winner,
             winningCombination |-> victoryResult.winningPattern,
             type |-> "victory"]
       ELSE [isGameOver |-> FALSE, winner |-> null,
             winningCombination |-> nullArray, type |-> "running"]

checkGameEnd(boardState) ==
    LET victoryResult == checkVictoryPatterns(boardState)
    IN IF victoryResult.hasWinner
       THEN [isGameOver |-> TRUE,
             winner |-> victoryResult.winner,
             winningCombination |-> victoryResult.winningPattern,
             type |-> "victory"]
       ELSE IF isBufferFull(boardState)
       THEN [isGameOver |-> TRUE, winner |-> "draw",
             winningCombination |-> nullArray, type |-> "overflow"]
       ELSE [isGameOver |-> FALSE, winner |-> null,
             winningCombination |-> nullArray, type |-> "running"]

\* a variant that checks the range only
isValidWriteInRange(boardState, position) ==
    /\ position >= 0
    /\ position < 9

isValidWrite(boardState, position) ==
    /\ position >= 0
    /\ position < 9
    /\ boardState[position] = null

simulateWrite(boardState, position, bit) ==
    IF ~isValidWrite(boardState, position)
    THEN nullArray
    ELSE [boardState EXCEPT ![position] = bit]

\* a variant whose filter keeps the truthy indices, which 0 is not
getAvailablePositionsTruthy(boardState) ==
    SelectSeq(<<0, 1, 2, 3, 4, 5, 6, 7, 8>>,
              LAMBDA index : boardState[index] = null /\ index # 0)

\* map to index-or-null, then filter the nulls out: the empty indices in ascending order
getAvailablePositions(boardState) ==
    SelectSeq(<<0, 1, 2, 3, 4, 5, 6, 7, 8>>, LAMBDA index : boardState[index] = null)

\* a variant without the test for a draw
evaluateStateDrawLost(boardState, maximizingBit) ==
    LET result == checkGameEnd(boardState)
    IN IF ~result.isGameOver THEN 0
       ELSE IF result.winner = maximizingBit THEN 1 ELSE -1

evaluateState(boardState, maximizingBit) ==
    LET result == checkGameEnd(boardState)
    IN IF ~result.isGameOver THEN 0
       ELSE IF result.winner = "draw" THEN 0
       ELSE IF result.winner = maximizingBit THEN 1 ELSE -1

-----------------------------------------------------------------------------
(* BinaryAIPlayer *)

\* a variant of the configuration whose search stops two moves deep
InitialConfigShallow ==
    [bit |-> "0", opponentBit |-> "1", difficulty |-> 88, maxDepth |-> 2, thinkingTime |-> 800]

\* aiConfig and stats as the constructor leaves them
InitialConfig ==
    [bit |-> "0", opponentBit |-> "1", difficulty |-> 88, maxDepth |-> 9, thinkingTime |-> 800]

InitialStats ==
    [totalMoves |-> 0, optimalMoves |-> 0, strategicMoves |-> 0, randomMoves |-> 0]

center == <<4>>
corners == <<0, 2, 6, 8>>
edges == <<1, 3, 5, 7>>

\* a variant that leaves the centre for an edge
getOpeningStrategyEdges(random) ==
    IF LessThan(random[1], 7, 10)
    THEN [move |-> center[1], read |-> 1]
    ELSE [move |-> edges[FloorTimes(random[2], Len(edges)) + 1], read |-> 2]

getOpeningStrategy(random) ==
    IF LessThan(random[1], 7, 10)
    THEN [move |-> center[1], read |-> 1]
    ELSE [move |-> corners[FloorTimes(random[2], Len(corners)) + 1], read |-> 2]

RECURSIVE minimax(_, _, _, _, _, _)
RECURSIVE maximizingLoop(_, _, _, _, _, _, _, _)
RECURSIVE minimizingLoop(_, _, _, _, _, _, _, _)

\* a variant of the leaf score without the weight of the depth
leafScoreUnweighted(boardState, depth, cfg) ==
    evaluateState(boardState, cfg.bit)

\* the leaf of the search: the score of a finished (or depth-cut) board
leafScore(boardState, depth, cfg) ==
    evaluateState(boardState, cfg.bit) * (10 - depth)

minimax(boardState, depth, isMaximizing, alpha, beta, cfg) ==
    LET result == checkGameEnd(boardState)
    IN IF result.isGameOver \/ depth >= cfg.maxDepth
       THEN leafScore(boardState, depth, cfg)
       ELSE LET availablePositions == getAvailablePositions(boardState)
            IN IF isMaximizing
               THEN maximizingLoop(boardState, depth, availablePositions, 1,
                                   alpha, beta, -Infinity, cfg)
               ELSE minimizingLoop(boardState, depth, availablePositions, 1,
                                   alpha, beta, Infinity, cfg)

\* the for-loop of the maximizing branch, from the k-th available position on
maximizingLoop(boardState, depth, availablePositions, k, alpha, beta, maxScore, cfg) ==
    IF k > Len(availablePositions) THEN maxScore
    ELSE LET newState == simulateWrite(boardState, availablePositions[k], cfg.bit)
             score == minimax(newState, depth + 1, FALSE, alpha, beta, cfg)
             maxScore2 == Max(score, maxScore)
             alpha2 == Max(alpha, score)
         IN IF beta <= alpha2
            THEN maxScore2
            ELSE maximizingLoop(boardState, depth, availablePositions, k + 1,
                                alpha2, beta, maxScore2, cfg)

\* the for-loop of the minimizing branch, from the k-th available position on
minimizingLoop(boardState, depth, availablePositions, k, alpha, beta, minScore, cfg) ==
    IF k > Len(availablePositions) THEN minScore
    ELSE LET newState == simulateWrite(boardState, availablePositions[k], cfg.opponentBit)
             score == minimax(newState, depth + 1, TRUE, alpha, beta, cfg)
             minScore2 == Min(score, minScore)
             beta2 == Min(beta, score)
         IN IF beta2 <= alpha
            THEN minScore2
            ELSE minimizingLoop(boardState, depth, availablePositions, k + 1,
                                alpha, beta2, minScore2, cfg)

\* a variant of the loop that compares with >=
RECURSIVE optimalLoopLastBest(_, _, _, _, _, _)
optimalLoopLastBest(boardState, availablePositions, k, bestScore, bestMove, cfg) ==
    IF k > Len(availablePositions) THEN bestMove
    ELSE LET position == availablePositions[k]
             newState == simulateWrite(boardState, position, cfg.bit)
             score == minimax(newState, 0, FALSE, -Infinity, Infinity, cfg)
         IN IF score >= bestScore
            THEN optimalLoopLastBest(boardState, availablePositions, k + 1, score, position, cfg)
            ELSE optimalLoopLastBest(boardState, availablePositions, k + 1,
                                     bestScore, bestMove, cfg)

\* the for-loop of getOptimalMove, from the k-th available position on
RECURSIVE optimalLoop(_, _, _, _, _, _)
optimalLoop(boardState, availablePositions, k, bestScore, bestMove, cfg) ==
    IF k > Len(availablePositions) THEN bestMove
    ELSE LET position == availablePositions[k]
             newState == simulateWrite(boardState, position, cfg.bit)
             score == minimax(newState, 0, FALSE, -Infinity, Infinity, cfg)
         IN IF score > bestScore
            THEN optimalLoop(boardState, availablePositions, k + 1, score, position, cfg)
            ELSE optimalLoop(boardState, availablePositions, k + 1, bestScore, bestMove, cfg)

getOptimalMove(boardState, cfg) ==
    optimalLoop(boardState, getAvailablePositions(boardState), 1, -Infinity, -1, cfg)

(* The same search, with what the calls of minimax did: `score` is the value *)
(* returned, `deepest` the greatest depth any call was made with, `cut`      *)
(* tells whether some call stopped at depth >= maxDepth on a board on which   *)
(* the game was not over, and `pruned` whether some loop took its break with  *)
(* positions left.                                                            *)
RECURSIVE minimaxTrace(_, _, _, _, _, _)
RECURSIVE maximizingTrace(_, _, _, _, _, _, _, _)
RECURSIVE minimizingTrace(_, _, _, _, _, _, _, _)

minimaxTrace(boardState, depth, isMaximizing, alpha, beta, cfg) ==
    LET result == checkGameEnd(boardState)
    IN IF result.isGameOver \/ depth >= cfg.maxDepth
       THEN [score |-> leafScore(boardState, depth, cfg),
             deepest |-> depth,
             cut |-> ~result.isGameOver,
             pruned |-> FALSE]
       ELSE LET availablePositions == getAvailablePositions(boardState)
            IN IF isMaximizing
               THEN maximizingTrace(boardState, depth, availablePositions, 1, alpha, beta,
                                    [score |-> -Infinity, deepest |-> depth, cut |-> FALSE,
                                     pruned |-> FALSE],
                                    cfg)
               ELSE minimizingTrace(boardState, depth, availablePositions, 1, alpha, beta,
                                    [score |-> Infinity, deepest |-> depth, cut |-> FALSE,
                                     pruned |-> FALSE],
                                    cfg)

\* a variant of the maximizing loop that breaks when beta < alpha + 10
maximizingTraceEager(boardState, depth, availablePositions, k, alpha, beta, seen, cfg) ==
    IF k > Len(availablePositions) THEN seen
    ELSE LET newState == simulateWrite(boardState, availablePositions[k], cfg.bit)
             sub == minimaxTrace(newState, depth + 1, FALSE, alpha, beta, cfg)
             seen2 == [score |-> Max(sub.score, seen.score),
                       deepest |-> Max(sub.deepest, seen.deepest),
                       cut |-> sub.cut \/ seen.cut,
                       pruned |-> sub.pruned \/ seen.pruned]
             alpha2 == Max(alpha, sub.score)
         IN IF beta < alpha2 + 10
            THEN [seen2 EXCEPT !.pruned = @ \/ k < Len(availablePositions)]
            ELSE maximizingTrace(boardState, depth, availablePositions, k + 1,
                                 alpha2, beta, seen2, cfg)

\* the for-loop of the maximizing branch; `seen` holds maxScore and what the calls did
maximizingTrace(boardState, depth, availablePositions, k, alpha, beta, seen, cfg) ==
    IF k > Len(availablePositions) THEN seen
    ELSE LET newState == simulateWrite(boardState, availablePositions[k], cfg.bit)
             sub == minimaxTrace(newState, depth + 1, FALSE, alpha, beta, cfg)
             seen2 == [score |-> Max(sub.score, seen.score),
                       deepest |-> Max(sub.deepest, seen.deepest),
                       cut |-> sub.cut \/ seen.cut,
                       pruned |-> sub.pruned \/ seen.pruned]
             alpha2 == Max(alpha, sub.score)
         IN IF beta <= alpha2
            THEN [seen2 EXCEPT !.pruned = @ \/ k < Len(availablePositions)]
            ELSE maximizingTrace(boardState, depth, availablePositions, k + 1,
                                 alpha2, beta, seen2, cfg)

\* the for-loop of the minimizing branch; `seen` holds minScore and what the calls did
minimizingTrace(boardState, depth, availablePositions, k, alpha, beta, seen, cfg) ==
    IF k > Len(availablePositions) THEN seen
    ELSE LET newState == simulateWrite(boardState, availablePositions[k], cfg.opponentBit)
             sub == minimaxTrace(newState, depth + 1, TRUE, alpha, beta, cfg)
             seen2 == [score |-> Min(sub.score, seen.score),
                       deepest |-> Max(sub.deepest, seen.deepest),
                       cut |-> sub.cut \/ seen.cut,
                       pruned |-> sub.pruned \/ seen.pruned]
             beta2 == Min(beta, sub.score)
         IN IF beta2 <= alpha
            THEN [seen2 EXCEPT !.pruned = @ \/ k < Len(availablePositions)]
            ELSE minimizingTrace(boardState, depth, availablePositions, k + 1,
                                 alpha, beta2, seen2, cfg)

\* the for-loop of getOptimalMove; `best` holds bestMove, bestScore and what the calls did
RECURSIVE optimalTrace(_, _, _, _, _)
optimalTrace(boardState, availablePositions, k, best, cfg) ==
    IF k > Len(availablePositions) THEN best
    ELSE LET position == availablePositions[k]
             newState == simulateWrite(boardState, position, cfg.bit)
             sub == minimaxTrace(newState, 0, FALSE, -Infinity, Infinity, cfg)
             better == sub.score > best.score
         IN optimalTrace(boardState, availablePositions, k + 1,
                         [move |-> IF better THEN position ELSE best.move,
                          score |-> IF better THEN sub.score ELSE best.score,
                          calls |-> best.calls + 1,
                          deepest |-> Max(sub.deepest, best.deepest),
                          cut |-> sub.cut \/ best.cut,
                          pruned |-> sub.pruned \/ best.pruned],
                         cfg)

\* getOptimalMove: bestMove, bestScore (the score it logs) and what its calls did
getOptimalMoveTrace(boardState, cfg) ==
    optimalTrace(boardState, getAvailablePositions(boardState), 1,
                 [move |-> -1, score |-> -Infinity, calls |-> 0, deepest |-> -1,
                  cut |-> FALSE, pruned |-> FALSE],
                 cfg)

\* the for-loop of findImmediateWin, from the k-th available position on
RECURSIVE immediateWinLoop(_, _, _, _)
immediateWinLoop(boardState, bit, availablePositions, k) ==
    IF k > Len(availablePositions) THEN -1
    ELSE LET position == availablePositions[k]
             testState == simulateWrite(boardState, position, bit)
             result == checkGameEnd(testState)
         IN IF result.isGameOver /\ result.winner = bit
            THEN position
            ELSE immediateWinLoop(boardState, bit, availablePositions, k + 1)

findImmediateWin(boardState, bit) ==
    immediateWinLoop(boardState, bit, getAvailablePositions(boardState), 1)

\* a variant that looks at the edges before the corners
getHeuristicMoveEdgesFirst(boardState, stats, random) ==
    LET availablePositions == getAvailablePositions(boardState)
        availableCorners == SelectSeq(corners, LAMBDA corner : includes(availablePositions, corner))
        availableEdges == SelectSeq(edges, LAMBDA edge : includes(availablePositions, edge))
    IN IF includes(availablePositions, 4)
       THEN [move |-> 4, stats |-> stats, read |-> 0]
       ELSE IF Len(availableEdges) > 0
       THEN [move |-> availableEdges[FloorTimes(random[1], Len(availableEdges)) + 1],
             stats |-> stats, read |-> 1]
       ELSE IF Len(availableCorners) > 0
       THEN [move |-> availableCorners[FloorTimes(random[1], Len(availableCorners)) + 1],
             stats |-> stats, read |-> 1]
       ELSE [move |-> IF Len(availablePositions) > 0 THEN availablePositions[1] ELSE undefined,
             stats |-> [stats EXCEPT !.randomMoves = @ + 1],
             read |-> 0]

\* a variant without the corners and the edges: after the centre, the fallback
getHeuristicMoveCentreOnly(boardState, stats, random) ==
    LET availablePositions == getAvailablePositions(boardState)
    IN IF includes(availablePositions, 4)
       THEN [move |-> 4, stats |-> stats, read |-> 0]
       ELSE [move |-> IF Len(availablePositions) > 0 THEN availablePositions[1] ELSE undefined,
             stats |-> [stats EXCEPT !.randomMoves = @ + 1],
             read |-> 0]

\* a variant that draws among all the corners, available or not
getHeuristicMoveAnyCorner(boardState, stats, random) ==
    LET availablePositions == getAvailablePositions(boardState)
    IN IF includes(availablePositions, 4)
       THEN [move |-> 4, stats |-> stats, read |-> 0]
       ELSE [move |-> corners[FloorTimes(random[1], Len(corners)) + 1],
             stats |-> stats, read |-> 1]

getHeuristicMove(boardState, stats, random) ==
    LET availablePositions == getAvailablePositions(boardState)
        availableCorners == SelectSeq(corners, LAMBDA corner : includes(availablePositions, corner))
        availableEdges == SelectSeq(edges, LAMBDA edge : includes(availablePositions, edge))
    IN IF includes(availablePositions, 4)
       THEN [move |-> 4, stats |-> stats, read |-> 0]
       ELSE IF Len(availableCorners) > 0
       THEN [move |-> availableCorners[FloorTimes(random[1], Len(availableCorners)) + 1],
             stats |-> stats, read |-> 1]
       ELSE IF Len(availableEdges) > 0
       THEN [move |-> availableEdges[FloorTimes(random[1], Len(availableEdges)) + 1],
             stats |-> stats, read |-> 1]
       ELSE [move |-> IF Len(availablePositions) > 0 THEN availablePositions[1] ELSE undefined,
             stats |-> [stats EXCEPT !.randomMoves = @ + 1],
             read |-> 0]

\* a variant that blocks before it wins
getStrategicMoveBlockFirst(boardState, cfg, stats, random) ==
    LET winningMove == findImmediateWin(boardState, cfg.bit)
        blockingMove == findImmediateWin(boardState, cfg.opponentBit)
    IN IF blockingMove # -1
       THEN [move |-> blockingMove, stats |-> stats, read |-> 0]
       ELSE IF winningMove # -1
       THEN [move |-> winningMove, stats |-> stats, read |-> 0]
       ELSE getHeuristicMove(boardState, stats, random)

\* a variant that never blocks
getStrategicMoveNoBlock(boardState, cfg, stats, random) ==
    LET winningMove == findImmediateWin(boardState, cfg.bit)
    IN IF winningMove # -1
       THEN [move |-> winningMove, stats |-> stats, read |-> 0]
       ELSE getHeuristicMove(boardState, stats, random)

getStrategicMove(boardState, cfg, stats, random) ==
    LET winningMove == findImmediateWin(boardState, cfg.bit)
        blockingMove == findImmediateWin(boardState, cfg.opponentBit)
    IN IF winningMove # -1
       THEN [move |-> winningMove, stats |-> stats, read |-> 0]
       ELSE IF blockingMove # -1
       THEN [move |-> blockingMove, stats |-> stats, read |-> 0]
       ELSE getHeuristicMove(boardState, stats, random)

\* a variant that takes five empty cells for the middle of the game
isMidGameFromFive(availablePositions) == Len(availablePositions) >= 5

\* availablePositions.length >= 6
isMidGame(availablePositions) == Len(availablePositions) >= 6

\* a variant with <= for <
drawsOptimalInclusive(random, cfg) == random[1] <= cfg.difficulty

\* Math.random() < this.aiConfig.difficulty
drawsOptimal(random, cfg) == LessThan(random[1], cfg.difficulty, 100)

\* a variant that takes the first move of the player, not the empty board, for the opening
chooseByPhaseFirstCall(boardState, cfg, counted, random, optimalMove) ==
    LET availablePositions == getAvailablePositions(boardState)
    IN IF counted.totalMoves = 1
       THEN LET opening == getOpeningStrategy(random)
            IN [chosenMove |-> opening.move,
                stats |-> [counted EXCEPT !.strategicMoves = @ + 1],
                read |-> opening.read]
       ELSE IF isMidGame(availablePositions)
       THEN IF drawsOptimal(random, cfg)
            THEN [chosenMove |-> optimalMove, stats |-> counted, read |-> 1]
            ELSE LET strategic == getStrategicMove(boardState, cfg, counted, Tail(random))
                 IN [chosenMove |-> strategic.move,
                     stats |-> strategic.stats,
                     read |-> 1 + strategic.read]
       ELSE [chosenMove |-> optimalMove,
             stats |-> [counted EXCEPT !.optimalMoves = @ + 1],
             read |-> 0]

\* the if / else-if / else of calculateBestMove on a board with an empty cell; `counted` is
\* stats after totalMoves++, `optimalMove` the result of this.getOptimalMove(boardState),
\* which is read only on the branches that call it
chooseByPhase(boardState, cfg, counted, random, optimalMove) ==
    LET availablePositions == getAvailablePositions(boardState)
    IN IF Len(availablePositions) = 9
       THEN LET opening == getOpeningStrategy(random)
            IN [chosenMove |-> opening.move,
                stats |-> [counted EXCEPT !.strategicMoves = @ + 1],
                read |-> opening.read]
       ELSE IF isMidGame(availablePositions)
       THEN IF drawsOptimal(random, cfg)
            THEN [chosenMove |-> optimalMove, stats |-> counted, read |-> 1]
            ELSE LET strategic == getStrategicMove(boardState, cfg, counted, Tail(random))
                 IN [chosenMove |-> strategic.move,
                     stats |-> strategic.stats,
                     read |-> 1 + strategic.read]
       ELSE [chosenMove |-> optimalMove,
             stats |-> [counted EXCEPT !.optimalMoves = @ + 1],
             read |-> 0]

\* a variant without the early return on a board with no empty cell
calculateBestMoveWithUnguarded(boardState, cfg, stats, random, optimalMove) ==
    chooseByPhase(boardState, cfg, [stats EXCEPT !.totalMoves = @ + 1], random, optimalMove)

\* a variant that counts the call before it looks for an empty cell
calculateBestMoveWithCountFirst(boardState, cfg, stats, random, optimalMove) ==
    IF Len(getAvailablePositions(boardState)) = 0
    THEN [chosenMove |-> -1, stats |-> [stats EXCEPT !.totalMoves = @ + 1], read |-> 0]
    ELSE chooseByPhase(boardState, cfg, [stats EXCEPT !.totalMoves = @ + 1],
                       random, optimalMove)

\* calculateBestMove, given the result `optimalMove` of this.getOptimalMove(boardState)
calculateBestMoveWith(boardState, cfg, stats, random, optimalMove) ==
    IF Len(getAvailablePositions(boardState)) = 0
    THEN [chosenMove |-> -1, stats |-> stats, read |-> 0]
    ELSE chooseByPhase(boardState, cfg, [stats EXCEPT !.totalMoves = @ + 1],
                       random, optimalMove)

calculateBestMove(boardState, cfg, stats, random) ==
    calculateBestMoveWith(boardState, cfg, stats, random, getOptimalMove(boardState, cfg))

\* a variant that clamps from above only
adjustDifficultyNoFloor(cfg, newDifficulty) ==
    [cfg EXCEPT !.difficulty = Min(100, newDifficulty)]

\* adjustDifficulty: the configuration it leaves (difficulties in hundredths)
adjustDifficulty(cfg, newDifficulty) ==
    [cfg EXCEPT !.difficulty = Max(0, Min(100, newDifficulty))]

\* resetStats: the counters it stores
resetStats ==
    [totalMoves |-> 0, optimalMoves |-> 0, strategicMoves |-> 0, randomMoves |-> 0]

personalities ==
    [aggressive |-> [difficulty |-> 95, thinkingTime |-> 600],
     balanced |-> [difficulty |-> 85, thinkingTime |-> 800],
     friendly |-> [difficulty |-> 70, thinkingTime |-> 1000],
     beginner |-> [difficulty |-> 50, thinkingTime |-> 1200]]

\* names that every object literal answers with a function or an object it inherits
\* from Object.prototype: values that are truthy and have no enumerable property of their own
ObjectPrototypeKeys == {"constructor", "toString", "valueOf", "hasOwnProperty", "__proto__"}

\* personalities[personality], where it is truthy
personalityEntry(personality) ==
    IF personality \in DOMAIN personalities
    THEN personalities[personality]
    ELSE [field \in {} |-> undefined]

\* Object.assign(target, source)
ObjectAssign(target, source) ==
    [field \in DOMAIN target \cup DOMAIN source |->
        IF field \in DOMAIN source THEN source[field] ELSE target[field]]

\* a variant that takes an unknown name for "balanced"
setPersonalityDefaulting(cfg, personality) ==
    IF personality \in DOMAIN personalities
    THEN ObjectAssign(cfg, personalities[personality])
    ELSE ObjectAssign(cfg, personalities["balanced"])

\* setPersonality: the configuration it leaves
setPersonality(cfg, personality) ==
    IF personality \in DOMAIN personalities \cup ObjectPrototypeKeys
    THEN ObjectAssign(cfg, personalityEntry(personality))
    ELSE cfg

\* createBinaryGrid: #game-board is emptied and nine buttons are appended, with
\* data-index 0 to 8
createBinaryGrid == 0 .. 8

\* getCell: the buttons of #game-board with this data-index (querySelector returns the
\* one there is, or null when there is none)
getCell(boardElement, index) == {cell \in boardElement : cell = index}

\* a variant that writes on occupied cells too
makeMoveOverwriting(boardState, boardElement, cellIndex, player) ==
    IF cellIndex < 0 \/ cellIndex > 8
    THEN [ok |-> FALSE, threw |-> FALSE, boardState |-> boardState]
    ELSE [ok |-> getCell(boardElement, cellIndex) # {},
          threw |-> getCell(boardElement, cellIndex) = {},
          boardState |-> [boardState EXCEPT ![cellIndex] = player]]

\* BinaryGameBoard.makeMove.  On an index outside 0..8 or an occupied cell it returns
\* false and the board is unchanged.  Otherwise it writes boardState[cellIndex] and then
\* the cell of the page: with no such cell (initialize was not called) writeBitToCell
\* throws a TypeError on null, after the write of boardState, and nothing is returned.
\* ok: the call returned true; threw: the call ended with the exception
makeMove(boardState, boardElement, cellIndex, player) ==
    IF cellIndex < 0 \/ cellIndex > 8 \/ boardState[cellIndex] # null
    THEN [ok |-> FALSE, threw |-> FALSE, boardState |-> boardState]
    ELSE [ok |-> getCell(boardElement, cellIndex) # {},
          threw |-> getCell(boardElement, cellIndex) = {},
          boardState |-> [boardState EXCEPT ![cellIndex] = player]]

\* switchPlayer
otherPlayer(player) == IF player = "1" THEN "0" ELSE "1"

-----------------------------------------------------------------------------
(* State *)

VARIABLES
    boardState,     \* the board: gameBoard.boardState, or the board handed to the call
    boardElement,   \* the data-index of each .game-cell button in #game-board
    currentPlayer,  \* gameState.currentPlayer: the mark to move
    mode,           \* who chooses the moves of a game (SpecPlay)
    aiConfig,       \* BinaryAIPlayer.aiConfig
    stats,          \* BinaryAIPlayer.stats
    ret,            \* the last call made: its name, its inputs and what it returned
    gameState,      \* the other fields of BinaryTicTacToe.gameState
    timers,         \* the setTimeout callbacks not yet run, by kind
    calls,          \* calls of calculateBestMove since the constructor or the last resetStats:
                    \* how many were made, and how many of them on a board with an empty cell;
                    \* and how many games the application has started, how many times it
                    \* went back to the menu, and how many events of the user it has handled
    notifications   \* BinaryUIController: notificationQueue, isShowingNotification, the
                    \* notification elements in document.body and their pending timers

vars ==
    <<boardState, boardElement, currentPlayer, mode, aiConfig, stats, ret, gameState,
      timers, calls, notifications>>

\* sessionStats with every counter at 0
NoGames == [key \in {"1", "0", "totalGames", "draws"} |-> 0]

\* gameState as the constructor of BinaryTicTacToe leaves it (currentPlayer apart);
\* totalGames is the property gameState.totalGames, which the constructor does not set
InitialGameState ==
    [isGameActive |-> FALSE, currentMode |-> null, isAIProcessing |-> FALSE,
     sessionStats |-> NoGames, totalGames |-> "undefined"]

NoTimers == [aiTurn |-> 0]

NoCalls == [made |-> 0, moved |-> 0, started |-> 0, menus |-> 0, events |-> 0]

\* #game-board as the page is loaded: it holds no cell
NoCells == {}

\* the notification state the constructor of BinaryUIController leaves, with no element
\* in document.body and no timer pending.  An element is named by its content, the message
\* and the type it was created with; body is in document order, the timers in the order
\* they were set
NoNotifications ==
    [notificationQueue |-> <<>>, isShowingNotification |-> FALSE,
     body |-> <<>>, hideTimers |-> <<>>, removeTimers |-> <<>>]

\* no application around the objects called: no game, no grid, no timer, no notification
NoApplication ==
    /\ boardElement = NoCells
    /\ gameState = InitialGameState
    /\ timers = NoTimers
    /\ calls = NoCalls
    /\ notifications = NoNotifications

NoCall == [op |-> "none"]

\* the configuration of an automated player that plays `bit`
ConfigFor(bit) == [InitialConfig EXCEPT !.bit = bit, !.opponentBit = otherPlayer(bit)]

EmptyCount(b) == Cardinality({i \in Positions : b[i] = null})

\* how many cells of b hold `mark`
MarkCount(b, mark) == Cardinality({i \in Positions : b[i] = mark})

\* pattern k holds three equal marks on b
Complete(b, k) ==
    /\ b[winningPatterns[k][1]] # null
    /\ b[winningPatterns[k][2]] = b[winningPatterns[k][1]]
    /\ b[winningPatterns[k][3]] = b[winningPatterns[k][1]]

CompletePatterns(b) == {k \in 1 .. 8 : Complete(b, k)}

\* `mark` holds two cells of some pattern through the empty cell p
Completes(b, p, mark) ==
    /\ p \in Positions
    /\ b[p] = null
    /\ \E k \in 1 .. 8 :
          /\ \E j \in 1 .. 3 : winningPatterns[k][j] = p
          /\ \A j \in 1 .. 3 : winningPatterns[k][j] # p => b[winningPatterns[k][j]] = mark

\* `mark` holds two cells of some pattern whose third cell is empty
HoldsTwo(b, mark) == \E p \in Positions : Completes(b, p, mark)

\* `calls` after one more call of calculateBestMove, on board b
OneMoreCall(b) ==
    [calls EXCEPT !.made = @ + 1,
                  !.moved = @ + IF EmptyCount(b) = 0 THEN 0 ELSE 1]

-----------------------------------------------------------------------------
(* SpecRules: the rules engine applied to every board *)

\* how far outside 0..8 the positions handed to simulateWrite go
PositionMargin == 1

PositionInputs == (0 - PositionMargin) .. (8 + PositionMargin)

InitRules ==
    /\ boardState \in Boards
    /\ currentPlayer = "1"
    /\ mode = "rules"
    /\ aiConfig = InitialConfig
    /\ stats = InitialStats
    /\ ret = NoCall
    /\ NoApplication

CheckGameEnd ==
    /\ ret.op = "none"
    /\ ret' = [op |-> "checkGameEnd", result |-> checkGameEnd(boardState)]
    /\ UNCHANGED <<boardState, currentPlayer, mode, boardElement, notifications, aiConfig,
                   stats, gameState, timers, calls>>

\* a variant that writes into the board it was given
SimulateWriteInPlace ==
    /\ ret.op = "none"
    /\ \E position \in PositionInputs, bit \in Bits :
          /\ ret' = [op |-> "simulateWrite", position |-> position, bit |-> bit,
                     result |-> simulateWrite(boardState, position, bit)]
          /\ boardState' = IF isValidWrite(boardState, position)
                           THEN [boardState EXCEPT ![position] = bit]
                           ELSE boardState
    /\ UNCHANGED <<currentPlayer, mode, boardElement, notifications, aiConfig, stats,
                   gameState, timers, calls>>

SimulateWrite ==
    /\ ret.op = "none"
    /\ \E position \in PositionInputs, bit \in Bits :
          ret' = [op |-> "simulateWrite", position |-> position, bit |-> bit,
                  result |-> simulateWrite(boardState, position, bit)]
    /\ UNCHANGED <<boardState, currentPlayer, mode, boardElement, notifications, aiConfig,
                   stats, gameState, timers, calls>>

GetAvailablePositions ==
    /\ ret.op = "none"
    /\ ret' = [op |-> "getAvailablePositions", result |-> getAvailablePositions(boardState)]
    /\ UNCHANGED <<boardState, currentPlayer, mode, boardElement, notifications, aiConfig,
                   stats, gameState, timers, calls>>

EvaluateState ==
    /\ ret.op = "none"
    /\ \E maximizingBit \in Bits :
          ret' = [op |-> "evaluateState", bit |-> maximizingBit,
                  result |-> evaluateState(boardState, maximizingBit)]
    /\ UNCHANGED <<boardState, currentPlayer, mode, boardElement, notifications, aiConfig,
                   stats, gameState, timers, calls>>

NextRules == CheckGameEnd \/ SimulateWrite \/ GetAvailablePositions \/ EvaluateState

SpecRules == InitRules /\ [][NextRules]_vars

-----------------------------------------------------------------------------
(* SpecOptimal: getOptimalMove applied once to a board, for every board     *)
(* with at most MaxEmptyCells empty cells, whatever marks it holds.          *)

\* how many cells of the boards handed to getOptimalMove are empty, at most
MaxEmptyCells == 7

OptimalBoards == {b \in Boards : EmptyCount(b) <= MaxEmptyCells}

InitOptimal ==
    /\ boardState \in OptimalBoards
    /\ currentPlayer = "0"
    /\ mode = "optimal"
    /\ aiConfig = InitialConfig
    /\ stats = InitialStats
    /\ ret = NoCall
    /\ NoApplication

GetOptimalMove ==
    /\ ret.op = "none"
    /\ ret' = [op |-> "getOptimalMove", move |-> getOptimalMove(boardState, aiConfig)]
    /\ UNCHANGED <<boardState, currentPlayer, mode, boardElement, notifications, aiConfig,
                   stats, gameState, timers, calls>>

NextOptimal == GetOptimalMove

SpecOptimal == InitOptimal /\ [][NextOptimal]_vars

-----------------------------------------------------------------------------
(* SpecSearch: getOptimalMove applied once to a board with an empty cell on  *)
(* which the marks alternate from '1' ('1' holds as many cells as '0', or one *)
(* more), the empty board included, with what its calls of minimax did.       *)

SearchBoards ==
    {b \in Boards : EmptyCount(b) >= 1 /\ MarkCount(b, "1") - MarkCount(b, "0") \in {0, 1}}

InitSearch ==
    /\ boardState \in SearchBoards
    /\ currentPlayer = "0"
    /\ mode = "search"
    /\ aiConfig = InitialConfig
    /\ stats = InitialStats
    /\ ret = NoCall
    /\ NoApplication

GetOptimalMoveTrace ==
    /\ ret.op = "none"
    /\ \E trace \in {getOptimalMoveTrace(boardState, aiConfig)} :
          ret' = [op |-> "getOptimalMove", move |-> trace.move, score |-> trace.score,
                  calls |-> trace.calls, deepest |-> trace.deepest, cut |-> trace.cut,
                  pruned |-> trace.pruned]
    /\ UNCHANGED <<boardState, currentPlayer, mode, boardElement, notifications, aiConfig,
                   stats, gameState, timers, calls>>

NextSearch == GetOptimalMoveTrace

SpecSearch == InitSearch /\ [][NextSearch]_vars

-----------------------------------------------------------------------------
(* SpecChoose: calculateBestMove applied once to a board, for each          *)
(* difficulty and each outcome of the draws.  The boards are those on which *)
(* it can be the turn of '0' when the marks alternate (as many '1' as '0',  *)
(* or one '1' more), finished ones included, one board for each class of    *)
(* boards that the rotations and reflections of the grid map to each other. *)

\* the rotations and reflections of the grid: cell i of the image is cell s[i+1] of the board
Symmetries ==
    { <<0, 1, 2, 3, 4, 5, 6, 7, 8>>, <<6, 3, 0, 7, 4, 1, 8, 5, 2>>,
      <<8, 7, 6, 5, 4, 3, 2, 1, 0>>, <<2, 5, 8, 1, 4, 7, 0, 3, 6>>,
      <<2, 1, 0, 5, 4, 3, 8, 7, 6>>, <<6, 7, 8, 3, 4, 5, 0, 1, 2>>,
      <<0, 3, 6, 1, 4, 7, 2, 5, 8>>, <<8, 5, 2, 7, 4, 1, 6, 3, 0>> }

CellDigit(cell) == IF cell = null THEN 0 ELSE IF cell = "0" THEN 1 ELSE 2

RECURSIVE BoardCode(_, _, _)
BoardCode(b, s, i) ==
    IF i > 8 THEN 0 ELSE CellDigit(b[s[i + 1]]) + 3 * BoardCode(b, s, i + 1)

Representative(b) ==
    \A s \in Symmetries : BoardCode(b, <<0, 1, 2, 3, 4, 5, 6, 7, 8>>, 0) <= BoardCode(b, s, 0)

SelectorBoards ==
    {b \in Boards : /\ MarkCount(b, "1") - MarkCount(b, "0") \in {0, 1}
                    /\ Representative(b)}

\* the difficulties the calls are made with, in hundredths
DifficultyInputs == {0, 50, 100}

\* the values of the next two Math.random() calls
RandomInputs == {<<r1, r2>> : r1 \in Draws, r2 \in Draws}

InitChoose ==
    /\ boardState \in SelectorBoards
    /\ currentPlayer = "0"
    /\ mode = "choose"
    /\ \E difficulty \in DifficultyInputs :
          aiConfig = [InitialConfig EXCEPT !.difficulty = difficulty]
    /\ stats = InitialStats
    /\ ret = NoCall
    /\ NoApplication

(* getOptimalMove under the configuration of the constructor (bit '0', opponentBit  *)
(* '1', maxDepth 9), tabulated: the entry at BoardCode + 1 is the move the search    *)
(* returns on the board whose cells, read as the base-3 digits null 0, '0' 1, '1' 2   *)
(* with cell 0 the lowest, give that code. The application computes the move once in  *)
(* each turn of the AI; the table stands for that one computation.                    *)
OptimalMoves == <<
    0, 1, 4, 0, 2, 3, 0, 3, 2, 0, 1, 5, 0, 3, 4, 4, 4, 5, 4, 3, 1, 4, 4, 4, 0, 3, 3,
    0, 6, 1, 0, 2, 4, 0, 6, 2, 0, 1, 4, 0, 4, 4, 4, 6, 4, 0, 6, 1, 4, 6, 4, 0, 6, 4,
    0, 1, 6, 0, 2, 6, 0, 4, 2, 0, 1, 6, 0, 4, 6, 8, 4, 6, 0, 4, 1, 4, 4, 6, 0, 4, 4,
    0, 8, 1, 7, 2, 7, 0, 8, 2, 6, 1, 6, 0, 3, 6, 6, 6, 6, 0, 8, 1, 7, 7, 7, 0, 8, 3,
    5, 5, 5, 5, 2, 5, 5, 5, 5, 5, 1, 5, 0, 5, 5, 5, 5, 5, 5, 5, 5, 5, 5, 5, 5, 5, 5,
    0, 8, 6, 7, 2, 7, 0, 8, 2, 6, 1, 6, 0, 5, 6, 6, 6, 6, 0, 8, 1, 7, 7, 7, 0, 8, 5,
    0, 1, 8, 0, 2, 8, 7, 7, 2, 0, 1, 8, 0, 3, 8, 7, 7, 3, 6, 6, 1, 6, 6, 3, 0, 3, 3,
    0, 6, 8, 0, 2, 8, 7, 6, 2, 0, 1, 8, 0, 5, 8, 7, 6, 5, 6, 6, 1, 6, 6, 5, 0, 6, 5,
    5, 5, 1, 5, 2, 2, 0, 2, 2, 5, 1, 1, 0, 5, 5, 0, 5, 5, 0, 1, 1, 0, 5, 5, 0, 5, 5,
    0, 2, 2, 2, 2, 4, 2, 3, 2, 8, 1, 8, 0, 3, 8, 8, 8, 8, 0, 3, 1, 4, 3, 4, 0, 3, 3,
    4, 4, 4, 4, 2, 4, 4, 4, 4, 4, 1, 4, 0, 4, 4, 4, 4, 4, 4, 4, 4, 4, 4, 4, 4, 4, 4,
    0, 2, 6, 2, 2, 6, 0, 8, 2, 8, 1, 8, 0, 4, 8, 8, 8, 8, 0, 1, 1, 0, 4, 6, 0, 4, 4,
    3, 3, 3, 3, 2, 3, 3, 3, 3, 3, 1, 3, 0, 3, 3, 3, 3, 3, 3, 3, 3, 3, 3, 3, 3, 3, 3,
    0, 1, 1, 0, 2, 2, 0, 2, 2, 0, 1, 1, 0, 6, 6, 0, 6, 6, 0, 1, 1, 0, 6, 6, 0, 6, 6,
    2, 8, 6, 7, 2, 7, 2, 8, 2, 6, 1, 6, 0, 6, 6, 6, 6, 6, 0, 8, 1, 7, 7, 7, 0, 8, 6,
    0, 2, 8, 2, 2, 8, 7, 7, 2, 8, 1, 8, 0, 3, 8, 8, 8, 8, 6, 6, 1, 6, 6, 3, 0, 3, 3,
    0, 6, 8, 0, 2, 8, 7, 6, 2, 8, 1, 8, 0, 6, 8, 8, 6, 8, 6, 6, 1, 6, 6, 6, 0, 6, 6,
    0, 2, 1, 2, 2, 2, 7, 7, 2, 8, 1, 8, 0, 6, 8, 8, 8, 8, 6, 6, 1, 6, 6, 6, 0, 6, 6,
    2, 2, 1, 2, 2, 4, 0, 6, 2, 0, 1, 3, 0, 3, 4, 3, 4, 4, 8, 8, 1, 8, 8, 8, 0, 8, 3,
    0, 6, 2, 0, 2, 2, 2, 6, 2, 0, 1, 1, 0, 4, 4, 6, 6, 4, 8, 6, 1, 8, 6, 8, 0, 6, 4,
    4, 4, 1, 4, 2, 2, 4, 4, 2, 4, 1, 1, 0, 4, 4, 4, 4, 4, 0, 1, 1, 0, 4, 4, 0, 4, 4,
    0, 8, 1, 7, 2, 7, 0, 8, 2, 6, 1, 6, 0, 3, 6, 6, 6, 6, 8, 8, 1, 7, 7, 7, 0, 8, 3,
    0, 6, 1, 7, 2, 7, 0, 6, 2, 6, 1, 6, 0, 6, 6, 6, 6, 6, 8, 6, 1, 7, 6, 7, 0, 6, 6,
    0, 8, 6, 7, 2, 7, 0, 8, 2, 6, 1, 6, 0, 6, 6, 6, 6, 6, 8, 8, 1, 7, 7, 7, 0, 8, 6,
    3, 3, 1, 3, 2, 2, 0, 2, 2, 3, 1, 1, 0, 3, 3, 0, 3, 3, 0, 1, 1, 0, 3, 3, 0, 3, 3,
    0, 6, 8, 0, 2, 8, 7, 6, 2, 0, 1, 8, 0, 6, 8, 7, 6, 6, 0, 6, 1, 0, 6, 6, 0, 6, 6,
    0, 1, 1, 0, 2, 2, 0, 2, 2, 0, 1, 1, 0, 6, 6, 0, 6, 6, 0, 1, 1, 0, 6, 6, 0, 6, 6,
    0, 3, 2, 0, 2, 4, 0, 3, 2, 4, 1, 4, 0, 3, 4, 4, 3, 4, 0, 3, 1, 7, 3, 7, 0, 3, 3,
    0, 1, 4, 0, 2, 4, 0, 2, 2, 0, 1, 4, 0, 4, 4, 0, 4, 4, 0, 1, 1, 0, 4, 4, 0, 4, 4,
    4, 2, 7, 2, 2, 4, 8, 4, 2, 4, 1, 4, 0, 4, 4, 4, 4, 4, 4, 8, 1, 7, 4, 7, 0, 8, 4,
    2, 2, 2, 2, 2, 2, 2, 2, 2, 0, 1, 1, 0, 3, 3, 0, 3, 3, 0, 3, 1, 7, 3, 7, 0, 3, 3,
    0, 1, 2, 0, 2, 2, 0, 2, 2, 0, 1, 1, 0, 5, 5, 0, 5, 5, 0, 1, 5, 0, 5, 5, 0, 5, 5,
    2, 2, 2, 2, 2, 2, 2, 2, 2, 0, 1, 1, 0, 5, 5, 0, 5, 5, 7, 8, 1, 7, 7, 7, 0, 8, 5,
    0, 3, 8, 0, 2, 8, 7, 3, 2, 0, 1, 8, 0, 3, 8, 7, 3, 3, 0, 3, 1, 0, 3, 8, 0, 3, 3,
    0, 1, 8, 0, 2, 8, 0, 2, 2, 0, 1, 8, 0, 5, 8, 0, 5, 5, 0, 1, 1, 0, 5, 8, 0, 5, 5,
    5, 5, 1, 5, 2, 2, 0, 2, 2, 5, 1, 1, 0, 5, 5, 0, 5, 5, 5, 5, 1, 5, 5, 5, 0, 5, 5,
    2, 3, 2, 0, 2, 2, 2, 3, 2, 4, 1, 4, 0, 3, 4, 4, 3, 4, 3, 3, 1, 3, 3, 4, 0, 3, 3,
    0, 1, 4, 0, 2, 4, 0, 2, 4, 0, 1, 4, 0, 4, 4, 0, 4, 4, 0, 1, 4, 0, 4, 4, 0, 4, 4,
    2, 2, 2, 2, 2, 2, 2, 2, 2, 4, 1, 4, 0, 4, 4, 4, 4, 4, 0, 8, 1, 7, 4, 7, 0, 8, 4,
    2, 2, 2, 2, 2, 2, 2, 2, 2, 0, 1, 1, 0, 3, 3, 0, 3, 3, 3, 3, 3, 3, 3, 3, 3, 3, 3,
    0, 1, 1, 0, 2, 2, 0, 2, 2, 0, 1, 1, 0, 7, 7, 0, 7, 7, 0, 1, 1, 0, 7, 7, 0, 7, 7,
    2, 2, 2, 2, 2, 2, 2, 2, 2, 0, 1, 1, 0, 7, 7, 0, 7, 7, 7, 8, 1, 7, 7, 7, 0, 8, 7,
    8, 3, 8, 0, 2, 8, 7, 3, 2, 8, 1, 8, 0, 3, 8, 8, 3, 8, 0, 3, 1, 0, 3, 8, 0, 3, 3,
    0, 1, 8, 0, 2, 8, 0, 2, 2, 0, 1, 8, 0, 7, 8, 0, 7, 8, 0, 1, 1, 0, 7, 8, 0, 7, 7,
    8, 2, 8, 2, 2, 8, 7, 7, 2, 8, 1, 8, 0, 7, 8, 8, 8, 8, 0, 1, 1, 0, 7, 8, 0, 7, 7,
    0, 3, 8, 0, 2, 4, 0, 3, 2, 4, 1, 4, 0, 3, 4, 4, 3, 4, 8, 3, 1, 8, 3, 8, 0, 3, 3,
    0, 1, 2, 0, 2, 4, 0, 2, 2, 0, 1, 4, 0, 4, 4, 0, 4, 4, 0, 1, 1, 0, 4, 8, 0, 4, 4,
    4, 4, 4, 4, 2, 4, 4, 4, 2, 4, 1, 4, 0, 4, 4, 4, 4, 4, 0, 1, 1, 0, 4, 4, 0, 4, 4,
    2, 2, 2, 2, 2, 2, 2, 2, 2, 0, 1, 1, 0, 3, 3, 0, 3, 3, 8, 3, 1, 7, 3, 7, 0, 3, 3,
    0, 1, 2, 0, 2, 2, 0, 2, 2, 0, 1, 1, 0, 7, 7, 0, 7, 7, 0, 1, 1, 0, 7, 7, 0, 7, 7,
    2, 2, 2, 2, 2, 2, 2, 2, 2, 0, 1, 1, 0, 7, 7, 0, 7, 7, 8, 8, 1, 7, 7, 7, 0, 8, 7,
    3, 3, 1, 3, 2, 2, 0, 3, 2, 3, 1, 1, 0, 3, 3, 0, 3, 3, 0, 3, 1, 0, 3, 3, 0, 3, 3,
    0, 1, 8, 0, 2, 8, 0, 2, 2, 0, 1, 8, 0, 7, 8, 0, 7, 7, 0, 1, 1, 0, 7, 8, 0, 7, 7,
    0, 1, 1, 0, 2, 2, 0, 2, 2, 0, 1, 1, 0, 7, 7, 0, 7, 7, 0, 1, 1, 0, 7, 7, 0, 7, 7,
    4, 1, 3, 0, 2, 3, 0, 4, 2, 0, 1, 3, 0, 3, 3, 4, 8, 3, 4, 4, 1, 4, 4, 3, 0, 4, 3,
    2, 4, 4, 4, 2, 4, 4, 4, 2, 5, 1, 5, 0, 4, 4, 5, 4, 5, 4, 4, 1, 4, 4, 4, 0, 4, 4,
    0, 1, 1, 0, 2, 2, 0, 4, 2, 0, 1, 1, 0, 4, 4, 0, 8, 4, 0, 4, 1, 0, 4, 4, 0, 4, 4,
    0, 8, 3, 7, 2, 7, 0, 8, 2, 0, 1, 3, 0, 3, 7, 5, 8, 3, 1, 8, 1, 7, 7, 7, 0, 8, 3,
    5, 5, 5, 5, 2, 5, 5, 5, 5, 5, 1, 5, 0, 5, 5, 5, 5, 5, 5, 5, 5, 5, 5, 5, 5, 5, 5,
    0, 8, 1, 7, 2, 2, 0, 8, 2, 0, 1, 1, 0, 5, 5, 0, 8, 5, 0, 8, 1, 7, 7, 5, 0, 8, 5,
    2, 2, 1, 2, 2, 2, 0, 2, 2, 0, 1, 1, 0, 3, 3, 7, 7, 3, 0, 1, 1, 0, 3, 3, 0, 3, 3,
    2, 2, 1, 2, 2, 2, 0, 2, 2, 0, 1, 8, 0, 5, 8, 7, 7, 5, 0, 1, 1, 0, 5, 5, 0, 5, 5,
    0, 1, 1, 0, 2, 2, 0, 2, 2, 0, 1, 1, 0, 5, 5, 0, 5, 5, 0, 1, 1, 0, 5, 5, 0, 5, 5,
    8, 2, 3, 2, 2, 3, 4, 4, 2, 8, 1, 8, 0, 3, 8, 8, 8, 8, 4, 4, 1, 4, 4, 3, 0, 4, 3,
    4, 4, 4, 4, 2, 4, 4, 4, 4, 4, 1, 4, 0, 4, 4, 4, 4, 4, 4, 4, 4, 4, 4, 4, 4, 4, 4,
    0, 2, 1, 0, 2, 2, 0, 8, 2, 8, 1, 1, 0, 4, 4, 8, 8, 4, 0, 4, 1, 0, 4, 4, 0, 4, 4,
    3, 3, 3, 3, 2, 3, 3, 3, 3, 3, 1, 3, 0, 3, 3, 3, 3, 3, 3, 3, 3, 3, 3, 3, 3, 3, 3,
    0, 1, 1, 0, 2, 2, 0, 2, 2, 0, 1, 1, 0, 7, 7, 0, 7, 7, 0, 1, 1, 0, 7, 7, 0, 7, 7,
    0, 8, 1, 7, 2, 2, 0, 8, 2, 8, 1, 1, 0, 7, 7, 8, 8, 7, 0, 8, 1, 7, 7, 7, 0, 8, 7,
    2, 2, 1, 2, 2, 2, 0, 2, 2, 8, 1, 8, 0, 3, 8, 8, 8, 8, 0, 1, 1, 0, 3, 3, 0, 3, 3,
    2, 2, 1, 2, 2, 2, 0, 2, 2, 8, 1, 8, 0, 7, 8, 8, 8, 8, 0, 1, 1, 0, 7, 7, 0, 7, 7,
    0, 2, 1, 0, 2, 2, 0, 2, 2, 8, 1, 1, 0, 7, 7, 8, 8, 7, 0, 1, 1, 0, 7, 7, 0, 7, 7,
    0, 2, 3, 4, 2, 3, 0, 2, 2, 0, 1, 3, 0, 3, 3, 4, 4, 3, 0, 1, 1, 0, 3, 3, 0, 3, 3,
    2, 2, 1, 2, 2, 4, 0, 2, 2, 0, 1, 4, 0, 4, 4, 4, 4, 4, 0, 1, 1, 0, 4, 4, 0, 4, 4,
    0, 4, 1, 0, 2, 2, 0, 4, 2, 0, 1, 1, 0, 4, 4, 0, 4, 4, 0, 1, 1, 0, 4, 4, 0, 4, 4,
    1, 8, 3, 7, 2, 7, 2, 8, 2, 0, 1, 3, 0, 3, 7, 0, 8, 3, 8, 8, 1, 7, 7, 7, 0, 8, 3,
    1, 8, 1, 7, 2, 7, 2, 8, 2, 0, 1, 1, 0, 7, 7, 0, 8, 7, 8, 8, 1, 7, 7, 7, 0, 8, 7,
    0, 8, 1, 7, 2, 2, 0, 8, 2, 0, 1, 1, 0, 7, 7, 0, 8, 7, 0, 8, 1, 7, 7, 7, 0, 8, 7,
    0, 1, 1, 0, 2, 2, 0, 2, 2, 3, 1, 1, 0, 3, 3, 0, 3, 3, 0, 1, 1, 0, 3, 3, 0, 3, 3,
    2, 2, 1, 2, 2, 2, 0, 2, 2, 0, 1, 8, 0, 7, 8, 7, 7, 7, 0, 1, 1, 0, 7, 7, 0, 7, 7,
    0, 1, 1, 0, 2, 2, 0, 2, 2, 0, 1, 1, 0, 7, 7, 0, 7, 7, 0, 1, 1, 0, 7, 7, 0, 7, 7,
    0, 1, 6, 4, 2, 4, 0, 6, 2, 1, 1, 4, 0, 3, 4, 6, 4, 6, 8, 4, 1, 4, 4, 4, 0, 6, 3,
    4, 6, 4, 4, 2, 4, 6, 6, 2, 0, 1, 4, 0, 4, 4, 4, 6, 4, 4, 6, 1, 4, 4, 4, 0, 6, 4,
    4, 1, 6, 4, 2, 4, 0, 8, 2, 1, 1, 6, 0, 4, 4, 6, 4, 6, 4, 4, 1, 4, 4, 4, 0, 8, 4,
    1, 1, 1, 0, 2, 2, 6, 8, 2, 1, 1, 1, 0, 3, 3, 6, 6, 6, 1, 1, 1, 0, 3, 3, 0, 8, 3,
    1, 1, 1, 0, 2, 2, 5, 5, 5, 1, 1, 1, 0, 5, 5, 5, 5, 5, 1, 1, 1, 0, 5, 5, 5, 5, 5,
    1, 1, 1, 0, 2, 2, 6, 8, 2, 1, 1, 1, 0, 5, 5, 6, 6, 6, 1, 1, 1, 0, 5, 5, 0, 8, 5,
    0, 6, 8, 0, 2, 8, 0, 6, 2, 8, 1, 8, 0, 3, 8, 8, 6, 8, 6, 6, 1, 6, 6, 3, 0, 6, 3,
    6, 6, 8, 0, 2, 8, 6, 6, 2, 0, 1, 8, 0, 5, 8, 6, 6, 8, 6, 6, 1, 6, 6, 5, 0, 6, 5,
    5, 5, 1, 5, 2, 2, 5, 5, 2, 5, 1, 1, 0, 5, 5, 5, 5, 5, 0, 1, 1, 0, 5, 5, 0, 5, 5,
    4, 1, 4, 4, 2, 4, 8, 3, 2, 8, 1, 8, 0, 3, 4, 8, 8, 8, 4, 3, 1, 4, 4, 4, 0, 3, 3,
    4, 4, 4, 4, 2, 4, 4, 4, 4, 4, 1, 4, 0, 4, 4, 4, 4, 4, 4, 4, 4, 4, 4, 4, 4, 4, 4,
    8, 1, 6, 4, 2, 4, 8, 8, 2, 8, 1, 8, 0, 4, 4, 8, 8, 8, 0, 4, 1, 4, 4, 4, 0, 8, 4,
    1, 1, 1, 0, 2, 2, 3, 3, 3, 1, 1, 1, 0, 3, 3, 3, 3, 3, 1, 1, 1, 0, 3, 3, 3, 3, 3,
    0, 1, 1, 0, 2, 2, 0, 2, 2, 0, 1, 1, 0, 6, 6, 0, 6, 6, 0, 1, 1, 0, 6, 6, 0, 6, 6,
    1, 1, 1, 0, 2, 2, 2, 8, 2, 1, 1, 1, 0, 6, 6, 6, 6, 6, 1, 1, 1, 0, 6, 6, 0, 8, 6,
    8, 2, 8, 2, 2, 8, 8, 6, 2, 8, 1, 8, 0, 3, 8, 8, 8, 8, 6, 6, 1, 6, 6, 3, 0, 6, 3,
    6, 6, 8, 0, 2, 8, 6, 6, 2, 8, 1, 8, 0, 6, 8, 8, 6, 8, 6, 6, 1, 6, 6, 6, 0, 6, 6,
    8, 2, 1, 2, 2, 2, 8, 8, 2, 8, 1, 8, 0, 6, 8, 8, 8, 8, 6, 6, 1, 6, 6, 6, 0, 6, 6,
    4, 1, 4, 4, 2, 4, 0, 6, 2, 1, 1, 4, 0, 3, 4, 6, 4, 6, 8, 8, 1, 4, 4, 4, 0, 8, 3,
    6, 6, 1, 4, 2, 4, 6, 6, 2, 0, 1, 4, 0, 4, 4, 6, 6, 6, 8, 6, 1, 4, 4, 4, 0, 6, 4,
    4, 4, 1, 4, 2, 4, 4, 4, 2, 4, 1, 1, 0, 4, 4, 4, 4, 4, 0, 1, 1, 4, 4, 4, 0, 4, 4,
    1, 1, 1, 0, 2, 2, 6, 8, 2, 1, 1, 1, 0, 3, 3, 6, 6, 6, 1, 1, 1, 0, 3, 3, 0, 8, 3,
    1, 1, 1, 0, 2, 2, 0, 6, 2, 1, 1, 1, 0, 6, 6, 6, 6, 6, 1, 1, 1, 0, 6, 6, 0, 6, 6,
    1, 1, 1, 0, 2, 2, 6, 8, 2, 1, 1, 1, 0, 6, 6, 6, 6, 6, 1, 1, 1, 0, 6, 6, 0, 8, 6,
    3, 3, 1, 3, 2, 2, 3, 3, 2, 3, 1, 1, 0, 3, 3, 3, 3, 3, 0, 1, 1, 0, 3, 3, 0, 3, 3,
    6, 6, 8, 0, 2, 8, 6, 6, 2, 0, 1, 8, 0, 6, 8, 6, 6, 8, 0, 6, 1, 0, 6, 6, 0, 6, 6,
    0, 1, 1, 0, 2, 2, 0, 2, 2, 0, 1, 1, 0, 6, 6, 0, 6, 6, 0, 1, 1, 0, 6, 6, 0, 6, 6,
    8, 3, 8, 4, 2, 4, 8, 3, 8, 4, 1, 4, 0, 3, 4, 4, 3, 4, 8, 3, 8, 4, 3, 4, 8, 3, 3,
    0, 1, 8, 0, 2, 4, 0, 2, 8, 0, 1, 4, 0, 4, 4, 0, 4, 4, 0, 1, 8, 0, 4, 4, 0, 4, 4,
    8, 8, 8, 4, 2, 4, 8, 8, 8, 4, 1, 4, 0, 4, 4, 4, 4, 4, 8, 8, 8, 4, 4, 4, 8, 8, 4,
    1, 1, 1, 0, 2, 2, 2, 2, 2, 0, 1, 1, 0, 3, 3, 0, 3, 3, 1, 1, 1, 0, 3, 3, 8, 3, 3,
    0, 1, 1, 0, 2, 2, 0, 2, 2, 0, 1, 1, 0, 5, 5, 0, 5, 5, 0, 1, 1, 0, 5, 5, 0, 5, 5,
    1, 1, 1, 0, 2, 2, 2, 2, 2, 0, 1, 1, 0, 5, 5, 0, 5, 5, 1, 1, 1, 0, 5, 5, 8, 8, 5,
    8, 3, 8, 8, 2, 8, 8, 3, 8, 8, 1, 8, 0, 3, 8, 8, 3, 8, 8, 3, 8, 8, 3, 8, 8, 3, 3,
    0, 1, 8, 0, 2, 8, 0, 2, 8, 0, 1, 8, 0, 5, 8, 0, 5, 8, 0, 1, 8, 0, 5, 8, 0, 5, 5,
    8, 8, 8, 8, 2, 8, 8, 8, 8, 8, 1, 8, 0, 5, 8, 8, 8, 8, 8, 8, 8, 8, 8, 8, 8, 8, 5,
    8, 3, 8, 4, 2, 4, 8, 3, 8, 4, 1, 4, 0, 3, 4, 4, 3, 4, 8, 3, 8, 4, 3, 4, 8, 3, 3,
    0, 1, 4, 0, 2, 4, 0, 2, 4, 0, 1, 4, 0, 4, 4, 0, 4, 4, 0, 1, 4, 0, 4, 4, 0, 4, 4,
    8, 8, 8, 4, 2, 4, 8, 8, 8, 4, 1, 4, 0, 4, 4, 4, 4, 4, 8, 8, 8, 4, 4, 4, 8, 8, 4,
    1, 1, 1, 0, 2, 2, 2, 2, 2, 0, 1, 1, 0, 3, 3, 0, 3, 3, 1, 1, 1, 0, 3, 3, 3, 3, 3,
    0, 1, 1, 0, 2, 2, 0, 2, 2, 0, 1, 1, 0, 8, 8, 0, 8, 8, 0, 1, 1, 0, 8, 8, 0, 8, 8,
    1, 1, 1, 0, 2, 2, 2, 2, 2, 0, 1, 1, 0, 8, 8, 0, 8, 8, 1, 1, 1, 0, 8, 8, 8, 8, 8,
    8, 3, 8, 8, 2, 8, 8, 3, 8, 8, 1, 8, 0, 3, 8, 8, 3, 8, 8, 3, 8, 8, 3, 8, 8, 3, 3,
    0, 1, 8, 0, 2, 8, 0, 2, 8, 0, 1, 8, 0, 8, 8, 0, 8, 8, 0, 1, 8, 0, 8, 8, 0, 8, 8,
    8, 8, 8, 8, 2, 8, 8, 8, 8, 8, 1, 8, 0, 8, 8, 8, 8, 8, 8, 8, 8, 8, 8, 8, 8, 8, 8,
    8, 3, 8, 4, 2, 4, 8, 3, 8, 4, 1, 4, 0, 3, 4, 4, 3, 4, 8, 3, 8, 4, 3, 4, 8, 3, 3,
    0, 1, 8, 0, 2, 4, 0, 2, 8, 0, 1, 4, 0, 4, 4, 0, 4, 4, 0, 1, 8, 0, 4, 4, 0, 4, 4,
    8, 8, 8, 4, 2, 4, 8, 8, 8, 4, 1, 4, 0, 4, 4, 4, 4, 4, 8, 8, 8, 4, 4, 4, 8, 8, 4,
    1, 1, 1, 0, 2, 2, 2, 2, 2, 0, 1, 1, 0, 3, 3, 0, 3, 3, 1, 1, 1, 0, 3, 3, 8, 3, 3,
    0, 1, 1, 0, 2, 2, 0, 2, 2, 0, 1, 1, 0, 8, 8, 0, 8, 8, 0, 1, 1, 0, 8, 8, 0, 8, 8,
    1, 1, 1, 0, 2, 2, 2, 2, 2, 0, 1, 1, 0, 8, 8, 0, 8, 8, 1, 1, 1, 0, 8, 8, 8, 8, 8,
    8, 3, 8, 8, 2, 8, 8, 3, 8, 8, 1, 8, 0, 3, 8, 8, 3, 8, 8, 3, 8, 8, 3, 8, 8, 3, 3,
    0, 1, 8, 0, 2, 8, 0, 2, 8, 0, 1, 8, 0, 8, 8, 0, 8, 8, 0, 1, 8, 0, 8, 8, 0, 8, 8,
    0, 1, 1, 0, 2, 2, 0, 2, 2, 0, 1, 1, 0, 8, 8, 0, 8, 8, 0, 1, 1, 0, 8, 8, 0, 8, 8,
    0, 1, 3, 4, 2, 4, 0, 2, 2, 1, 1, 3, 0, 3, 4, 0, 8, 3, 4, 4, 1, 4, 4, 4, 0, 4, 3,
    4, 1, 4, 4, 2, 4, 0, 4, 2, 1, 1, 4, 0, 4, 4, 5, 4, 5, 4, 4, 1, 4, 4, 4, 0, 4, 4,
    0, 1, 1, 4, 2, 2, 0, 2, 2, 0, 1, 1, 0, 4, 4, 0, 8, 4, 0, 4, 1, 4, 4, 4, 0, 4, 4,
    1, 1, 1, 0, 2, 2, 0, 8, 2, 1, 1, 1, 0, 3, 3, 5, 8, 3, 1, 1, 1, 0, 3, 3, 0, 8, 3,
    1, 1, 1, 0, 2, 2, 5, 5, 5, 1, 1, 1, 0, 5, 5, 5, 5, 5, 1, 1, 1, 0, 5, 5, 5, 5, 5,
    1, 1, 1, 0, 2, 2, 0, 8, 2, 1, 1, 1, 0, 5, 5, 0, 8, 5, 1, 1, 1, 0, 5, 5, 0, 8, 5,
    2, 2, 1, 2, 2, 2, 2, 2, 2, 0, 1, 1, 0, 3, 3, 0, 3, 3, 0, 1, 1, 0, 3, 3, 0, 3, 3,
    2, 2, 1, 2, 2, 2, 2, 2, 2, 0, 1, 8, 0, 5, 8, 0, 5, 8, 0, 1, 1, 0, 5, 5, 0, 5, 5,
    0, 1, 1, 0, 2, 2, 0, 2, 2, 0, 1, 1, 0, 5, 5, 0, 5, 5, 0, 1, 1, 0, 5, 5, 0, 5, 5,
    4, 1, 3, 4, 2, 4, 0, 4, 2, 8, 1, 8, 0, 3, 4, 8, 8, 8, 4, 4, 1, 4, 4, 4, 0, 4, 3,
    4, 4, 4, 4, 2, 4, 4, 4, 4, 4, 1, 4, 0, 4, 4, 4, 4, 4, 4, 4, 4, 4, 4, 4, 4, 4, 4,
    0, 1, 1, 4, 2, 2, 0, 8, 2, 8, 1, 1, 0, 4, 4, 8, 8, 4, 0, 4, 1, 4, 4, 4, 0, 4, 4,
    1, 1, 1, 0, 2, 2, 3, 3, 3, 1, 1, 1, 0, 3, 3, 3, 3, 3, 1, 1, 1, 0, 3, 3, 3, 3, 3,
    0, 1, 1, 0, 2, 2, 0, 2, 2, 0, 1, 1, 0, 8, 8, 0, 8, 8, 0, 1, 1, 0, 8, 8, 0, 8, 8,
    1, 1, 1, 0, 2, 2, 0, 8, 2, 1, 1, 1, 0, 8, 8, 8, 8, 8, 1, 1, 1, 0, 8, 8, 0, 8, 8,
    2, 2, 1, 2, 2, 2, 2, 2, 2, 8, 1, 8, 0, 3, 8, 8, 8, 8, 0, 1, 1, 0, 3, 3, 0, 3, 3,
    2, 2, 1, 2, 2, 2, 2, 2, 2, 8, 1, 8, 0, 8, 8, 8, 8, 8, 0, 1, 1, 0, 8, 8, 0, 8, 8,
    0, 2, 1, 0, 2, 2, 0, 2, 2, 8, 1, 1, 0, 8, 8, 8, 8, 8, 0, 1, 1, 0, 8, 8, 0, 8, 8,
    4, 1, 3, 4, 2, 4, 0, 2, 2, 1, 1, 3, 0, 3, 4, 0, 3, 3, 0, 1, 1, 4, 4, 4, 0, 3, 3,
    1, 1, 2, 4, 2, 4, 2, 2, 2, 1, 1, 1, 0, 4, 4, 0, 4, 4, 0, 1, 1, 4, 4, 4, 0, 4, 4,
    0, 4, 1, 4, 2, 2, 0, 4, 2, 0, 1, 1, 0, 4, 4, 0, 4, 4, 0, 1, 1, 4, 4, 4, 0, 4, 4,
    1, 1, 1, 0, 2, 2, 0, 8, 2, 1, 1, 1, 0, 3, 3, 0, 8, 3, 1, 1, 1, 0, 3, 3, 0, 8, 3,
    1, 1, 1, 0, 2, 2, 0, 8, 2, 1, 1, 1, 0, 8, 8, 0, 8, 8, 1, 1, 1, 0, 8, 8, 0, 8, 8,
    1, 1, 1, 0, 2, 2, 0, 8, 2, 1, 1, 1, 0, 8, 8, 0, 8, 8, 1, 1, 1, 0, 8, 8, 0, 8, 8,
    0, 1, 1, 0, 2, 2, 0, 2, 2, 3, 1, 1, 0, 3, 3, 3, 3, 3, 0, 1, 1, 0, 3, 3, 0, 3, 3,
    2, 2, 1, 2, 2, 2, 2, 2, 2, 0, 1, 8, 0, 8, 8, 0, 8, 8, 0, 1, 1, 0, 8, 8, 0, 8, 8,
    0, 1, 1, 0, 2, 2, 0, 2, 2, 0, 1, 1, 0, 8, 8, 0, 8, 8, 0, 1, 1, 0, 8, 8, 0, 8, 8,
    1, 2, 1, 0, 2, 6, 4, 4, 2, 0, 1, 8, 0, 3, 6, 4, 4, 4, 0, 6, 1, 6, 6, 3, 0, 4, 3,
    4, 6, 4, 0, 2, 4, 4, 6, 2, 0, 1, 4, 0, 4, 4, 4, 6, 4, 4, 6, 1, 4, 6, 4, 0, 6, 4,
    0, 2, 6, 6, 2, 6, 4, 4, 2, 0, 1, 6, 0, 4, 6, 4, 4, 4, 0, 1, 1, 0, 4, 6, 0, 4, 4,
    0, 8, 3, 0, 2, 3, 0, 8, 2, 6, 1, 6, 0, 3, 6, 6, 6, 6, 3, 8, 1, 3, 8, 3, 0, 8, 3,
    5, 5, 5, 5, 2, 5, 5, 5, 5, 5, 1, 5, 0, 5, 5, 5, 5, 5, 5, 5, 5, 5, 5, 5, 5, 5, 5,
    0, 8, 6, 0, 2, 6, 0, 8, 2, 6, 1, 6, 0, 5, 6, 6, 6, 6, 6, 8, 1, 6, 8, 6, 0, 8, 5,
    1, 1, 1, 0, 2, 8, 0, 2, 2, 1, 1, 1, 0, 3, 8, 0, 3, 3, 0, 1, 1, 6, 6, 3, 0, 3, 3,
    1, 6, 1, 0, 2, 8, 0, 6, 2, 1, 1, 1, 0, 5, 8, 0, 6, 5, 0, 6, 1, 6, 6, 5, 0, 6, 5,
    0, 1, 1, 5, 2, 2, 0, 2, 2, 0, 1, 1, 0, 5, 5, 0, 5, 5, 0, 1, 1, 0, 5, 5, 0, 5, 5,
    4, 2, 4, 2, 2, 3, 4, 4, 2, 8, 1, 8, 0, 3, 8, 8, 8, 8, 4, 3, 1, 3, 3, 4, 0, 4, 3,
    4, 4, 4, 4, 2, 4, 4, 4, 4, 4, 1, 4, 0, 4, 4, 4, 4, 4, 4, 4, 4, 4, 4, 4, 4, 4, 4,
    0, 2, 6, 2, 2, 6, 4, 4, 2, 8, 1, 8, 0, 4, 8, 8, 8, 8, 0, 4, 1, 6, 4, 6, 0, 4, 4,
    3, 3, 3, 3, 2, 3, 3, 3, 3, 3, 1, 3, 0, 3, 3, 3, 3, 3, 3, 3, 3, 3, 3, 3, 3, 3, 3,
    0, 1, 1, 0, 2, 2, 0, 2, 2, 0, 1, 1, 0, 6, 6, 0, 6, 6, 0, 1, 1, 0, 6, 6, 0, 6, 6,
    2, 8, 6, 0, 2, 6, 2, 8, 2, 6, 1, 6, 0, 6, 6, 6, 6, 6, 0, 8, 1, 0, 8, 6, 0, 8, 6,
    1, 1, 1, 2, 2, 8, 0, 2, 2, 8, 1, 8, 0, 3, 8, 0, 3, 3, 0, 1, 1, 6, 6, 3, 0, 3, 3,
    1, 6, 1, 0, 2, 8, 0, 6, 2, 8, 1, 8, 0, 6, 8, 0, 6, 6, 0, 6, 1, 6, 6, 6, 0, 6, 6,
    1, 1, 1, 2, 2, 2, 0, 2, 2, 8, 1, 8, 0, 6, 8, 0, 6, 6, 0, 1, 1, 6, 6, 6, 0, 6, 6,
    0, 2, 1, 6, 2, 2, 4, 4, 2, 0, 1, 1, 0, 3, 3, 4, 4, 4, 8, 8, 1, 8, 8, 8, 0, 3, 3,
    2, 6, 1, 0, 2, 8, 4, 6, 2, 0, 1, 4, 0, 4, 4, 4, 6, 4, 8, 6, 1, 8, 6, 8, 0, 6, 4,
    4, 4, 1, 4, 2, 2, 4, 4, 2, 4, 1, 1, 0, 4, 4, 4, 4, 4, 0, 1, 1, 0, 4, 4, 0, 4, 4,
    2, 8, 8, 0, 2, 6, 2, 8, 2, 6, 1, 6, 0, 3, 6, 6, 6, 6, 8, 8, 1, 8, 8, 8, 0, 8, 3,
    0, 6, 2, 0, 2, 2, 0, 6, 2, 6, 1, 6, 0, 6, 6, 6, 6, 6, 8, 6, 1, 8, 6, 8, 0, 6, 6,
    6, 8, 6, 0, 2, 6, 0, 8, 2, 6, 1, 6, 0, 6, 6, 6, 6, 6, 8, 8, 1, 8, 8, 6, 0, 8, 6,
    0, 1, 1, 3, 2, 2, 0, 2, 2, 0, 1, 1, 0, 3, 3, 0, 3, 3, 0, 1, 1, 0, 3, 3, 0, 3, 3,
    1, 6, 1, 0, 2, 8, 0, 6, 2, 1, 1, 1, 0, 6, 8, 0, 6, 6, 0, 6, 1, 0, 6, 6, 0, 6, 6,
    0, 1, 1, 0, 2, 2, 0, 2, 2, 0, 1, 1, 0, 6, 6, 0, 6, 6, 0, 1, 1, 0, 6, 6, 0, 6, 6,
    0, 3, 1, 0, 2, 2, 4, 3, 2, 4, 1, 4, 0, 3, 4, 4, 3, 4, 0, 3, 1, 0, 3, 4, 0, 3, 3,
    0, 1, 4, 0, 2, 4, 0, 2, 2, 0, 1, 4, 0, 4, 4, 0, 4, 4, 0, 1, 1, 0, 4, 4, 0, 4, 4,
    1, 2, 4, 2, 2, 4, 4, 4, 2, 4, 1, 4, 0, 4, 4, 4, 4, 4, 4, 4, 1, 4, 4, 4, 0, 4, 4,
    2, 2, 2, 2, 2, 2, 2, 2, 2, 0, 1, 1, 0, 3, 3, 0, 3, 3, 0, 3, 1, 0, 3, 3, 0, 3, 3,
    0, 1, 2, 0, 2, 2, 0, 2, 2, 0, 1, 1, 0, 5, 5, 0, 5, 5, 0, 1, 5, 0, 5, 5, 0, 5, 5,
    2, 2, 2, 2, 2, 2, 2, 2, 2, 0, 1, 1, 0, 5, 5, 0, 5, 5, 0, 8, 1, 0, 8, 5, 0, 8, 5,
    1, 3, 1, 0, 2, 8, 0, 3, 2, 1, 1, 1, 0, 3, 8, 0, 3, 3, 1, 3, 1, 0, 3, 8, 0, 3, 3,
    0, 1, 1, 0, 2, 8, 0, 2, 2, 0, 1, 1, 0, 5, 8, 0, 5, 5, 0, 1, 1, 0, 5, 8, 0, 5, 5,
    0, 1, 1, 5, 2, 2, 0, 2, 2, 0, 1, 1, 0, 5, 5, 0, 5, 5, 0, 1, 1, 5, 5, 5, 0, 5, 5,
    2, 3, 2, 0, 2, 2, 4, 3, 2, 4, 1, 4, 0, 3, 4, 4, 3, 4, 3, 3, 1, 3, 3, 3, 0, 3, 3,
    0, 1, 4, 0, 2, 4, 0, 2, 4, 0, 1, 4, 0, 4, 4, 0, 4, 4, 0, 1, 4, 0, 4, 4, 0, 4, 4,
    2, 2, 2, 2, 2, 2, 4, 4, 2, 4, 1, 4, 0, 4, 4, 4, 4, 4, 0, 1, 1, 0, 4, 4, 0, 4, 4,
    2, 2, 2, 2, 2, 2, 2, 2, 2, 0, 1, 1, 0, 3, 3, 0, 3, 3, 3, 3, 3, 3, 3, 3, 3, 3, 3,
    0, 1, 1, 0, 2, 2, 0, 2, 2, 0, 1, 1, 0, 8, 8, 0, 8, 8, 0, 1, 1, 0, 8, 8, 0, 8, 8,
    2, 2, 2, 2, 2, 2, 2, 2, 2, 0, 1, 1, 0, 8, 8, 0, 8, 8, 0, 8, 1, 0, 8, 8, 0, 8, 8,
    1, 3, 1, 0, 2, 8, 0, 3, 2, 8, 1, 8, 0, 3, 8, 0, 3, 3, 1, 3, 1, 0, 3, 8, 0, 3, 3,
    0, 1, 1, 0, 2, 8, 0, 2, 2, 0, 1, 8, 0, 8, 8, 0, 8, 8, 0, 1, 1, 0, 8, 8, 0, 8, 8,
    1, 1, 1, 2, 2, 8, 0, 2, 2, 8, 1, 8, 0, 8, 8, 0, 8, 8, 1, 1, 1, 0, 8, 8, 0, 8, 8,
    0, 3, 1, 0, 2, 4, 4, 3, 2, 4, 1, 4, 0, 3, 4, 4, 3, 4, 8, 3, 1, 8, 3, 8, 0, 3, 3,
    0, 1, 1, 0, 2, 2, 0, 2, 2, 0, 1, 4, 0, 4, 4, 0, 4, 4, 0, 1, 1, 0, 4, 8, 0, 4, 4,
    4, 4, 4, 4, 2, 4, 4, 4, 2, 4, 1, 4, 0, 4, 4, 4, 4, 4, 0, 1, 1, 0, 4, 4, 0, 4, 4,
    2, 2, 2, 2, 2, 2, 2, 2, 2, 0, 1, 1, 0, 3, 3, 0, 3, 3, 8, 3, 1, 8, 3, 8, 0, 3, 3,
    0, 1, 2, 0, 2, 2, 0, 2, 2, 0, 1, 1, 0, 8, 8, 0, 8, 8, 0, 1, 1, 0, 8, 8, 0, 8, 8,
    2, 2, 2, 2, 2, 2, 2, 2, 2, 0, 1, 1, 0, 8, 8, 0, 8, 8, 8, 8, 1, 8, 8, 8, 0, 8, 8,
    0, 3, 1, 3, 2, 2, 0, 3, 2, 0, 1, 1, 0, 3, 3, 0, 3, 3, 0, 3, 1, 0, 3, 3, 0, 3, 3,
    0, 1, 1, 0, 2, 8, 0, 2, 2, 0, 1, 1, 0, 8, 8, 0, 8, 8, 0, 1, 1, 0, 8, 8, 0, 8, 8,
    0, 1, 1, 0, 2, 2, 0, 2, 2, 0, 1, 1, 0, 8, 8, 0, 8, 8, 0, 1, 1, 0, 8, 8, 0, 8, 8,
    8, 8, 1, 8, 2, 2, 0, 2, 2, 8, 1, 1, 0, 3, 3, 0, 3, 3, 0, 1, 1, 0, 3, 3, 0, 3, 3,
    8, 8, 8, 8, 2, 8, 0, 2, 2, 8, 1, 8, 0, 4, 8, 0, 4, 4, 0, 1, 1, 0, 4, 4, 0, 4, 4,
    0, 8, 1, 0, 2, 2, 0, 2, 2, 0, 1, 1, 0, 4, 4, 0, 4, 4, 0, 1, 1, 0, 4, 4, 0, 4, 4,
    8, 8, 1, 8, 2, 2, 8, 8, 2, 8, 1, 1, 0, 3, 3, 8, 8, 3, 8, 8, 1, 8, 8, 3, 0, 8, 3,
    5, 5, 5, 5, 2, 5, 5, 5, 5, 5, 1, 5, 0, 5, 5, 5, 5, 5, 5, 5, 5, 5, 5, 5, 5, 5, 5,
    0, 8, 1, 0, 2, 2, 0, 8, 2, 0, 1, 1, 0, 5, 5, 0, 8, 5, 0, 8, 1, 0, 8, 5, 0, 8, 5,
    0, 1, 1, 0, 2, 2, 0, 2, 2, 0, 1, 1, 0, 3, 3, 0, 3, 3, 0, 1, 1, 0, 3, 3, 0, 3, 3,
    0, 1, 1, 0, 2, 2, 0, 2, 2, 0, 1, 1, 0, 5, 8, 0, 5, 5, 0, 1, 1, 0, 5, 5, 0, 5, 5,
    0, 1, 1, 0, 2, 2, 0, 2, 2, 0, 1, 1, 0, 5, 5, 0, 5, 5, 0, 1, 1, 0, 5, 5, 0, 5, 5,
    8, 8, 1, 8, 2, 2, 0, 2, 2, 8, 1, 8, 0, 3, 8, 8, 8, 8, 0, 1, 1, 0, 3, 3, 0, 3, 3,
    4, 4, 4, 4, 2, 4, 4, 4, 4, 4, 1, 4, 0, 4, 4, 4, 4, 4, 4, 4, 4, 4, 4, 4, 4, 4, 4,
    0, 8, 1, 0, 2, 2, 0, 2, 2, 8, 1, 1, 0, 4, 4, 8, 8, 4, 0, 1, 1, 0, 4, 4, 0, 4, 4,
    3, 3, 3, 3, 2, 3, 3, 3, 3, 3, 1, 3, 0, 3, 3, 3, 3, 3, 3, 3, 3, 3, 3, 3, 3, 3, 3,
    0, 1, 1, 0, 2, 2, 0, 2, 2, 0, 1, 1, 0, 8, 8, 0, 8, 8, 0, 1, 1, 0, 8, 8, 0, 8, 8,
    0, 8, 1, 0, 2, 2, 0, 8, 2, 8, 1, 1, 0, 8, 8, 8, 8, 8, 0, 8, 1, 0, 8, 8, 0, 8, 8,
    0, 1, 1, 0, 2, 2, 0, 2, 2, 8, 1, 8, 0, 3, 8, 0, 3, 3, 0, 1, 1, 0, 3, 3, 0, 3, 3,
    0, 1, 1, 0, 2, 2, 0, 2, 2, 8, 1, 8, 0, 8, 8, 0, 8, 8, 0, 1, 1, 0, 8, 8, 0, 8, 8,
    0, 1, 1, 0, 2, 2, 0, 2, 2, 8, 1, 1, 0, 8, 8, 0, 8, 8, 0, 1, 1, 0, 8, 8, 0, 8, 8,
    8, 8, 1, 8, 2, 2, 0, 2, 2, 8, 1, 1, 0, 3, 3, 0, 3, 3, 0, 1, 1, 0, 3, 3, 0, 3, 3,
    8, 8, 8, 8, 2, 8, 0, 2, 2, 8, 1, 8, 0, 4, 8, 0, 4, 4, 0, 1, 1, 0, 4, 4, 0, 4, 4,
    0, 1, 1, 0, 2, 2, 0, 2, 2, 0, 1, 1, 0, 4, 4, 0, 4, 4, 0, 1, 1, 0, 4, 4, 0, 4, 4,
    8, 8, 1, 8, 2, 2, 8, 8, 2, 8, 1, 1, 0, 3, 3, 8, 8, 3, 8, 8, 1, 8, 8, 3, 0, 8, 3,
    8, 8, 8, 8, 2, 8, 8, 8, 2, 8, 1, 8, 0, 8, 8, 8, 8, 8, 8, 8, 1, 8, 8, 8, 0, 8, 8,
    0, 8, 1, 0, 2, 2, 0, 8, 2, 0, 1, 1, 0, 8, 8, 0, 8, 8, 0, 8, 1, 0, 8, 8, 0, 8, 8,
    0, 1, 1, 0, 2, 2, 0, 2, 2, 0, 1, 1, 0, 3, 3, 0, 3, 3, 0, 1, 1, 0, 3, 3, 0, 3, 3,
    0, 1, 1, 0, 2, 2, 0, 2, 2, 0, 1, 1, 0, 8, 8, 0, 8, 8, 0, 1, 1, 0, 8, 8, 0, 8, 8,
    0, 1, 1, 0, 2, 2, 0, 2, 2, 0, 1, 1, 0, 8, 8, 0, 8, 8, 0, 1, 1, 0, 8, 8, 0, 8, 8,
    0, 4, 2, 0, 2, 7, 2, 4, 2, 5, 1, 5, 0, 3, 5, 5, 4, 5, 0, 4, 1, 4, 4, 7, 0, 4, 3,
    0, 4, 5, 0, 2, 4, 0, 4, 2, 5, 1, 5, 0, 4, 5, 5, 4, 5, 0, 4, 1, 0, 4, 4, 0, 4, 4,
    2, 4, 6, 0, 2, 6, 2, 4, 2, 5, 1, 5, 0, 4, 5, 5, 4, 5, 6, 4, 1, 4, 4, 6, 0, 4, 4,
    0, 1, 2, 0, 2, 7, 0, 2, 2, 0, 1, 5, 0, 3, 5, 0, 3, 5, 0, 1, 1, 0, 3, 7, 0, 3, 3,
    0, 1, 5, 0, 2, 5, 0, 2, 5, 0, 1, 5, 0, 5, 5, 0, 5, 5, 0, 1, 5, 0, 5, 5, 0, 5, 5,
    0, 1, 6, 0, 2, 7, 0, 2, 2, 0, 1, 5, 0, 5, 5, 0, 5, 5, 0, 1, 1, 0, 5, 7, 0, 5, 5,
    0, 2, 2, 2, 2, 2, 7, 7, 2, 5, 1, 5, 0, 3, 5, 5, 5, 5, 6, 6, 1, 6, 6, 6, 0, 3, 3,
    6, 6, 1, 0, 2, 2, 7, 6, 2, 5, 1, 5, 0, 5, 5, 5, 5, 5, 6, 6, 1, 6, 6, 6, 0, 6, 5,
    5, 5, 1, 5, 2, 2, 0, 2, 2, 5, 1, 5, 0, 5, 5, 5, 5, 5, 0, 1, 1, 0, 5, 5, 0, 5, 5,
    2, 2, 2, 2, 2, 2, 2, 2, 2, 0, 1, 1, 0, 3, 3, 0, 3, 3, 4, 4, 1, 4, 4, 4, 0, 4, 3,
    2, 2, 2, 2, 2, 2, 2, 2, 2, 0, 1, 1, 0, 4, 4, 0, 4, 4, 4, 4, 4, 4, 4, 4, 4, 4, 4,
    2, 2, 2, 2, 2, 2, 2, 2, 2, 0, 1, 1, 0, 4, 4, 0, 4, 4, 0, 4, 1, 4, 4, 6, 0, 4, 4,
    0, 1, 2, 0, 2, 2, 0, 2, 2, 0, 1, 1, 0, 3, 3, 0, 3, 3, 0, 1, 3, 0, 3, 3, 0, 3, 3,
    0, 1, 1, 0, 2, 2, 0, 2, 2, 0, 1, 1, 0, 6, 6, 0, 6, 6, 0, 1, 1, 0, 6, 6, 0, 6, 6,
    0, 1, 2, 0, 2, 2, 0, 2, 2, 0, 1, 1, 0, 6, 6, 0, 6, 6, 0, 1, 1, 0, 6, 7, 0, 6, 6,
    2, 2, 2, 2, 2, 2, 2, 2, 2, 0, 1, 1, 0, 3, 3, 0, 3, 3, 6, 6, 1, 6, 6, 6, 0, 3, 3,
    2, 2, 2, 2, 2, 2, 2, 2, 2, 0, 1, 1, 0, 6, 6, 0, 6, 6, 6, 6, 1, 6, 6, 6, 0, 6, 6,
    2, 2, 2, 2, 2, 2, 2, 2, 2, 0, 1, 1, 0, 6, 6, 0, 6, 6, 6, 6, 1, 6, 6, 6, 0, 6, 6,
    4, 4, 3, 0, 2, 7, 6, 4, 2, 0, 1, 6, 0, 3, 4, 4, 4, 6, 6, 4, 1, 4, 4, 7, 0, 4, 3,
    0, 4, 1, 0, 2, 7, 0, 4, 2, 0, 1, 6, 0, 4, 4, 0, 4, 6, 0, 4, 1, 0, 4, 7, 0, 4, 4,
    4, 4, 1, 4, 2, 2, 4, 4, 2, 4, 1, 1, 0, 4, 4, 4, 4, 4, 4, 4, 1, 4, 4, 4, 0, 4, 4,
    0, 1, 6, 0, 2, 7, 0, 2, 2, 0, 1, 6, 0, 3, 6, 0, 3, 6, 0, 1, 1, 0, 3, 7, 0, 3, 3,
    0, 1, 6, 0, 2, 7, 0, 2, 2, 0, 1, 6, 0, 6, 6, 0, 6, 6, 0, 1, 1, 0, 6, 7, 0, 6, 6,
    0, 1, 6, 0, 2, 7, 0, 2, 2, 0, 1, 6, 0, 6, 6, 0, 6, 6, 0, 1, 1, 0, 6, 7, 0, 6, 6,
    3, 3, 3, 3, 2, 3, 0, 2, 2, 3, 1, 3, 0, 3, 3, 0, 3, 3, 0, 1, 1, 0, 3, 3, 0, 3, 3,
    6, 6, 1, 0, 2, 2, 7, 6, 2, 0, 1, 1, 0, 6, 6, 7, 6, 7, 6, 6, 1, 6, 6, 6, 0, 6, 6,
    0, 1, 1, 0, 2, 2, 0, 2, 2, 0, 1, 1, 0, 6, 6, 0, 6, 6, 0, 1, 1, 0, 6, 6, 0, 6, 6,
    7, 3, 7, 7, 2, 7, 7, 3, 7, 4, 1, 4, 0, 3, 4, 4, 3, 4, 7, 3, 7, 7, 3, 7, 7, 3, 3,
    0, 1, 7, 0, 2, 7, 0, 2, 7, 0, 1, 4, 0, 4, 4, 0, 4, 4, 0, 1, 7, 0, 4, 7, 0, 4, 4,
    7, 4, 7, 7, 2, 7, 7, 4, 7, 4, 1, 4, 0, 4, 4, 4, 4, 4, 7, 4, 7, 7, 4, 7, 7, 4, 4,
    0, 1, 2, 0, 2, 2, 0, 2, 2, 0, 1, 1, 0, 3, 3, 0, 3, 3, 0, 1, 7, 0, 3, 7, 0, 3, 3,
    0, 1, 2, 0, 2, 2, 0, 2, 2, 0, 1, 1, 0, 5, 5, 0, 5, 5, 0, 1, 5, 0, 5, 5, 0, 5, 5,
    0, 1, 2, 0, 2, 2, 0, 2, 2, 0, 1, 1, 0, 5, 5, 0, 5, 5, 0, 1, 7, 0, 5, 7, 0, 5, 5,
    7, 3, 7, 7, 2, 7, 7, 3, 7, 5, 1, 5, 0, 3, 5, 5, 3, 5, 7, 3, 7, 7, 3, 7, 7, 3, 3,
    0, 1, 7, 0, 2, 7, 0, 2, 7, 0, 1, 5, 0, 5, 5, 0, 5, 5, 0, 1, 7, 0, 5, 7, 0, 5, 5,
    7, 7, 7, 7, 2, 7, 7, 7, 7, 5, 1, 5, 0, 5, 5, 5, 5, 5, 7, 7, 7, 7, 7, 7, 7, 7, 5,
    2, 2, 2, 2, 2, 2, 2, 2, 2, 0, 1, 1, 0, 3, 3, 0, 3, 3, 7, 3, 7, 7, 3, 7, 7, 3, 3,
    0, 1, 2, 0, 2, 2, 0, 2, 2, 0, 1, 1, 0, 4, 4, 0, 4, 4, 0, 1, 4, 0, 4, 4, 0, 4, 4,
    2, 2, 2, 2, 2, 2, 2, 2, 2, 0, 1, 1, 0, 4, 4, 0, 4, 4, 7, 4, 7, 7, 4, 7, 7, 4, 4,
    0, 1, 2, 0, 2, 2, 0, 2, 2, 0, 1, 1, 0, 3, 3, 0, 3, 3, 0, 1, 3, 0, 3, 3, 0, 3, 3,
    0, 1, 1, 0, 2, 2, 0, 2, 2, 0, 1, 1, 0, 7, 7, 0, 7, 7, 0, 1, 1, 0, 7, 7, 0, 7, 7,
    0, 1, 2, 0, 2, 2, 0, 2, 2, 0, 1, 1, 0, 7, 7, 0, 7, 7, 0, 1, 7, 0, 7, 7, 0, 7, 7,
    2, 2, 2, 2, 2, 2, 2, 2, 2, 0, 1, 1, 0, 3, 3, 0, 3, 3, 7, 3, 7, 7, 3, 7, 7, 3, 3,
    0, 1, 2, 0, 2, 2, 0, 2, 2, 0, 1, 1, 0, 7, 7, 0, 7, 7, 0, 1, 7, 0, 7, 7, 0, 7, 7,
    2, 2, 2, 2, 2, 2, 2, 2, 2, 0, 1, 1, 0, 7, 7, 0, 7, 7, 7, 7, 7, 7, 7, 7, 7, 7, 7,
    7, 3, 7, 7, 2, 7, 7, 3, 7, 4, 1, 4, 0, 3, 4, 4, 3, 4, 7, 3, 7, 7, 3, 7, 7, 3, 3,
    0, 1, 7, 0, 2, 7, 0, 2, 7, 0, 1, 4, 0, 4, 4, 0, 4, 4, 0, 1, 7, 0, 4, 7, 0, 4, 4,
    7, 4, 7, 7, 2, 7, 7, 4, 7, 4, 1, 4, 0, 4, 4, 4, 4, 4, 7, 4, 7, 7, 4, 7, 7, 4, 4,
    0, 1, 2, 0, 2, 2, 0, 2, 2, 0, 1, 1, 0, 3, 3, 0, 3, 3, 0, 1, 7, 0, 3, 7, 0, 3, 3,
    0, 1, 2, 0, 2, 2, 0, 2, 2, 0, 1, 1, 0, 7, 7, 0, 7, 7, 0, 1, 7, 0, 7, 7, 0, 7, 7,
    0, 1, 2, 0, 2, 2, 0, 2, 2, 0, 1, 1, 0, 7, 7, 0, 7, 7, 0, 1, 7, 0, 7, 7, 0, 7, 7,
    7, 3, 7, 7, 2, 7, 7, 3, 7, 7, 1, 7, 0, 3, 7, 7, 3, 7, 7, 3, 7, 7, 3, 7, 7, 3, 3,
    0, 1, 7, 0, 2, 7, 0, 2, 7, 0, 1, 7, 0, 7, 7, 0, 7, 7, 0, 1, 7, 0, 7, 7, 0, 7, 7,
    0, 1, 1, 0, 2, 2, 0, 2, 2, 0, 1, 1, 0, 7, 7, 0, 7, 7, 0, 1, 1, 0, 7, 7, 0, 7, 7,
    0, 4, 3, 0, 2, 3, 2, 4, 2, 5, 1, 5, 0, 3, 5, 5, 4, 5, 4, 4, 1, 4, 4, 3, 0, 4, 3,
    4, 4, 5, 0, 2, 4, 4, 4, 2, 5, 1, 5, 0, 4, 5, 5, 4, 5, 4, 4, 1, 4, 4, 4, 0, 4, 4,
    0, 4, 1, 0, 2, 2, 0, 4, 2, 5, 1, 1, 0, 4, 4, 5, 4, 4, 0, 4, 1, 0, 4, 4, 0, 4, 4,
    0, 1, 3, 0, 2, 7, 0, 2, 2, 0, 1, 5, 0, 3, 5, 0, 3, 5, 0, 1, 1, 0, 3, 7, 0, 3, 3,
    0, 1, 5, 0, 2, 5, 0, 2, 5, 0, 1, 5, 0, 5, 5, 0, 5, 5, 0, 1, 5, 0, 5, 5, 0, 5, 5,
    0, 1, 1, 0, 2, 2, 0, 2, 2, 0, 1, 1, 0, 5, 5, 0, 5, 5, 0, 1, 1, 0, 5, 5, 0, 5, 5,
    2, 2, 1, 2, 2, 2, 0, 2, 2, 5, 1, 5, 0, 3, 5, 5, 5, 5, 0, 1, 1, 0, 3, 3, 0, 3, 3,
    2, 2, 2, 2, 2, 2, 0, 2, 2, 5, 1, 5, 0, 5, 5, 5, 5, 5, 0, 1, 1, 0, 5, 5, 0, 5, 5,
    0, 1, 1, 0, 2, 2, 0, 2, 2, 5, 1, 1, 0, 5, 5, 5, 5, 5, 0, 1, 1, 0, 5, 5, 0, 5, 5,
    2, 2, 2, 2, 2, 2, 2, 2, 2, 0, 1, 1, 0, 3, 3, 0, 3, 3, 4, 4, 1, 4, 4, 3, 0, 4, 3,
    2, 2, 2, 2, 2, 2, 2, 2, 2, 0, 1, 1, 0, 4, 4, 0, 4, 4, 4, 4, 4, 4, 4, 4, 4, 4, 4,
    2, 2, 1, 2, 2, 2, 2, 2, 2, 0, 1, 1, 0, 4, 4, 0, 4, 4, 0, 4, 1, 0, 4, 4, 0, 4, 4,
    0, 1, 2, 0, 2, 2, 0, 2, 2, 0, 1, 1, 0, 3, 3, 0, 3, 3, 0, 1, 3, 0, 3, 3, 0, 3, 3,
    0, 1, 1, 0, 2, 2, 0, 2, 2, 0, 1, 1, 0, 7, 7, 0, 7, 7, 0, 1, 1, 0, 7, 7, 0, 7, 7,
    0, 1, 1, 0, 2, 2, 0, 2, 2, 0, 1, 1, 0, 7, 7, 0, 7, 7, 0, 1, 1, 0, 7, 7, 0, 7, 7,
    2, 2, 2, 2, 2, 2, 2, 2, 2, 0, 1, 1, 0, 3, 3, 0, 3, 3, 0, 1, 1, 0, 3, 3, 0, 3, 3,
    2, 2, 2, 2, 2, 2, 2, 2, 2, 0, 1, 1, 0, 7, 7, 0, 7, 7, 0, 1, 1, 0, 7, 7, 0, 7, 7,
    2, 2, 1, 2, 2, 2, 2, 2, 2, 0, 1, 1, 0, 7, 7, 0, 7, 7, 0, 1, 1, 0, 7, 7, 0, 7, 7,
    3, 4, 3, 0, 2, 3, 0, 4, 2, 0, 1, 3, 0, 3, 3, 3, 4, 3, 4, 4, 1, 4, 4, 3, 0, 4, 3,
    0, 4, 1, 0, 2, 2, 2, 4, 2, 0, 1, 1, 0, 4, 4, 0, 4, 4, 4, 4, 1, 4, 4, 4, 0, 4, 4,
    0, 4, 1, 0, 2, 2, 0, 4, 2, 0, 1, 1, 0, 4, 4, 0, 4, 4, 0, 4, 1, 0, 4, 4, 0, 4, 4,
    0, 1, 3, 0, 2, 7, 0, 2, 2, 0, 1, 3, 0, 3, 7, 0, 3, 3, 0, 1, 1, 0, 3, 7, 0, 3, 3,
    0, 1, 1, 0, 2, 7, 0, 2, 2, 0, 1, 1, 0, 7, 7, 0, 7, 7, 0, 1, 1, 0, 7, 7, 0, 7, 7,
    0, 1, 1, 0, 2, 2, 0, 2, 2, 0, 1, 1, 0, 7, 7, 0, 7, 7, 0, 1, 1, 0, 7, 7, 0, 7, 7,
    0, 1, 1, 0, 2, 2, 0, 2, 2, 3, 1, 3, 0, 3, 3, 0, 3, 3, 0, 1, 1, 0, 3, 3, 0, 3, 3,
    2, 2, 2, 2, 2, 2, 0, 2, 2, 0, 1, 1, 0, 7, 7, 7, 7, 7, 0, 1, 1, 0, 7, 7, 0, 7, 7,
    0, 1, 1, 0, 2, 2, 0, 2, 2, 0, 1, 1, 0, 7, 7, 0, 7, 7, 0, 1, 1, 0, 7, 7, 0, 7, 7,
    6, 4, 6, 4, 2, 4, 6, 4, 6, 5, 1, 5, 0, 3, 4, 5, 4, 5, 6, 4, 6, 4, 4, 4, 6, 4, 3,
    6, 4, 6, 4, 2, 4, 6, 4, 6, 5, 1, 5, 0, 4, 4, 5, 4, 5, 6, 4, 6, 4, 4, 4, 6, 4, 4,
    6, 4, 6, 4, 2, 4, 6, 4, 6, 5, 1, 5, 0, 4, 4, 5, 4, 5, 6, 4, 6, 4, 4, 4, 6, 4, 4,
    0, 1, 1, 0, 2, 2, 0, 2, 6, 0, 1, 1, 0, 3, 3, 0, 3, 5, 0, 1, 1, 0, 3, 3, 0, 3, 3,
    0, 1, 1, 0, 2, 2, 0, 2, 5, 0, 1, 1, 0, 5, 5, 0, 5, 5, 0, 1, 1, 0, 5, 5, 0, 5, 5,
    0, 1, 1, 0, 2, 2, 0, 2, 6, 0, 1, 1, 0, 5, 5, 0, 5, 5, 0, 1, 1, 0, 5, 5, 0, 5, 5,
    6, 6, 6, 6, 2, 6, 6, 6, 6, 5, 1, 5, 0, 3, 5, 5, 5, 5, 6, 6, 6, 6, 6, 6, 6, 6, 3,
    6, 6, 6, 6, 2, 6, 6, 6, 6, 5, 1, 5, 0, 5, 5, 5, 5, 5, 6, 6, 6, 6, 6, 6, 6, 6, 5,
    6, 6, 6, 6, 2, 6, 6, 6, 6, 5, 1, 5, 0, 5, 5, 5, 5, 5, 6, 6, 6, 6, 6, 6, 6, 6, 5,
    2, 2, 2, 2, 2, 2, 2, 2, 2, 0, 1, 1, 0, 3, 3, 0, 3, 3, 6, 4, 6, 4, 4, 4, 6, 4, 3,
    2, 2, 2, 2, 2, 2, 2, 2, 2, 0, 1, 1, 0, 4, 4, 0, 4, 4, 4, 4, 4, 4, 4, 4, 4, 4, 4,
    2, 2, 2, 2, 2, 2, 2, 2, 2, 0, 1, 1, 0, 4, 4, 0, 4, 4, 6, 4, 6, 4, 4, 4, 6, 4, 4,
    0, 1, 1, 0, 2, 2, 0, 2, 2, 0, 1, 1, 0, 3, 3, 0, 3, 3, 0, 1, 1, 0, 3, 3, 0, 3, 3,
    0, 1, 1, 0, 2, 2, 0, 2, 2, 0, 1, 1, 0, 6, 6, 0, 6, 6, 0, 1, 1, 0, 6, 6, 0, 6, 6,
    0, 1, 1, 0, 2, 2, 0, 2, 2, 0, 1, 1, 0, 6, 6, 0, 6, 6, 0, 1, 1, 0, 6, 6, 0, 6, 6,
    2, 2, 2, 2, 2, 2, 2, 2, 2, 0, 1, 1, 0, 3, 3, 0, 3, 3, 6, 6, 6, 6, 6, 6, 6, 6, 3,
    2, 2, 2, 2, 2, 2, 2, 2, 2, 0, 1, 1, 0, 6, 6, 0, 6, 6, 6, 6, 6, 6, 6, 6, 6, 6, 6,
    2, 2, 2, 2, 2, 2, 2, 2, 2, 0, 1, 1, 0, 6, 6, 0, 6, 6, 6, 6, 6, 6, 6, 6, 6, 6, 6,
    6, 4, 6, 4, 2, 4, 6, 4, 6, 6, 1, 6, 0, 3, 4, 6, 4, 6, 6, 4, 6, 4, 4, 4, 6, 4, 3,
    6, 4, 6, 4, 2, 4, 6, 4, 6, 6, 1, 6, 0, 4, 4, 6, 4, 6, 6, 4, 6, 4, 4, 4, 6, 4, 4,
    6, 4, 6, 4, 2, 4, 6, 4, 6, 6, 1, 6, 0, 4, 4, 6, 4, 6, 6, 4, 6, 4, 4, 4, 6, 4, 4,
    0, 1, 1, 0, 2, 2, 0, 2, 6, 0, 1, 1, 0, 3, 3, 0, 3, 6, 0, 1, 1, 0, 3, 3, 0, 3, 3,
    0, 1, 1, 0, 2, 2, 0, 2, 6, 0, 1, 1, 0, 6, 6, 0, 6, 6, 0, 1, 1, 0, 6, 6, 0, 6, 6,
    0, 1, 1, 0, 2, 2, 0, 2, 6, 0, 1, 1, 0, 6, 6, 0, 6, 6, 0, 1, 1, 0, 6, 6, 0, 6, 6,
    6, 6, 6, 6, 2, 6, 6, 6, 6, 6, 1, 6, 0, 3, 6, 6, 6, 6, 6, 6, 6, 6, 6, 6, 6, 6, 3,
    6, 6, 6, 6, 2, 6, 6, 6, 6, 6, 1, 6, 0, 6, 6, 6, 6, 6, 6, 6, 6, 6, 6, 6, 6, 6, 6,
    0, 1, 1, 0, 2, 2, 0, 2, 2, 0, 1, 1, 0, 6, 6, 0, 6, 6, 0, 1, 1, 0, 6, 6, 0, 6, 6,
    0, 1, 1, 0, 2, 2, 0, 2, 2, 0, 1, 1, 0, 3, 3, 0, 3, 3, 0, 1, 1, 0, 3, 3, 0, 3, 3,
    0, 1, 1, 0, 2, 2, 0, 2, 2, 0, 1, 1, 0, 4, 4, 0, 4, 4, 0, 1, 1, 0, 4, 4, 0, 4, 4,
    0, 1, 1, 0, 2, 2, 0, 2, 2, 0, 1, 1, 0, 4, 4, 0, 4, 4, 0, 1, 1, 0, 4, 4, 0, 4, 4,
    0, 1, 1, 0, 2, 2, 0, 2, 2, 0, 1, 1, 0, 3, 3, 0, 3, 3, 0, 1, 1, 0, 3, 3, 0, 3, 3,
    0, 1, 1, 0, 2, 2, 0, 2, 2, 0, 1, 1, 0, 5, 5, 0, 5, 5, 0, 1, 1, 0, 5, 5, 0, 5, 5,
    0, 1, 1, 0, 2, 2, 0, 2, 2, 0, 1, 1, 0, 5, 5, 0, 5, 5, 0, 1, 1, 0, 5, 5, 0, 5, 5,
    0, 1, 1, 0, 2, 2, 0, 2, 2, 0, 1, 1, 0, 3, 3, 0, 3, 3, 0, 1, 1, 0, 3, 3, 0, 3, 3,
    0, 1, 1, 0, 2, 2, 0, 2, 2, 0, 1, 1, 0, 5, 5, 0, 5, 5, 0, 1, 1, 0, 5, 5, 0, 5, 5,
    0, 1, 1, 0, 2, 2, 0, 2, 2, 0, 1, 1, 0, 5, 5, 0, 5, 5, 0, 1, 1, 0, 5, 5, 0, 5, 5,
    0, 1, 1, 0, 2, 2, 0, 2, 2, 0, 1, 1, 0, 3, 3, 0, 3, 3, 0, 1, 1, 0, 3, 3, 0, 3, 3,
    0, 1, 1, 0, 2, 2, 0, 2, 2, 0, 1, 1, 0, 4, 4, 0, 4, 4, 0, 1, 1, 0, 4, 4, 0, 4, 4,
    0, 1, 1, 0, 2, 2, 0, 2, 2, 0, 1, 1, 0, 4, 4, 0, 4, 4, 0, 1, 1, 0, 4, 4, 0, 4, 4,
    0, 1, 1, 0, 2, 2, 0, 2, 2, 0, 1, 1, 0, 3, 3, 0, 3, 3, 0, 1, 1, 0, 3, 3, 0, 3, 3,
    0, 1, 1, 0, 2, 2, 0, 2, 2, 0, 1, 1, 0, -1, -1, 0, -1, -1, 0, 1, 1, 0, -1, -1, 0, -1, -1,
    0, 1, 1, 0, 2, 2, 0, 2, 2, 0, 1, 1, 0, -1, -1, 0, -1, -1, 0, 1, 1, 0, -1, -1, 0, -1, -1,
    0, 1, 1, 0, 2, 2, 0, 2, 2, 0, 1, 1, 0, 3, 3, 0, 3, 3, 0, 1, 1, 0, 3, 3, 0, 3, 3,
    0, 1, 1, 0, 2, 2, 0, 2, 2, 0, 1, 1, 0, -1, -1, 0, -1, -1, 0, 1, 1, 0, -1, -1, 0, -1, -1,
    0, 1, 1, 0, 2, 2, 0, 2, 2, 0, 1, 1, 0, -1, -1, 0, -1, -1, 0, 1, 1, 0, -1, -1, 0, -1, -1,
    0, 1, 1, 0, 2, 2, 0, 2, 2, 0, 1, 1, 0, 3, 3, 0, 3, 3, 0, 1, 1, 0, 3, 3, 0, 3, 3,
    0, 1, 1, 0, 2, 2, 0, 2, 2, 0, 1, 1, 0, 4, 4, 0, 4, 4, 0, 1, 1, 0, 4, 4, 0, 4, 4,
    0, 1, 1, 0, 2, 2, 0, 2, 2, 0, 1, 1, 0, 4, 4, 0, 4, 4, 0, 1, 1, 0, 4, 4, 0, 4, 4,
    0, 1, 1, 0, 2, 2, 0, 2, 2, 0, 1, 1, 0, 3, 3, 0, 3, 3, 0, 1, 1, 0, 3, 3, 0, 3, 3,
    0, 1, 1, 0, 2, 2, 0, 2, 2, 0, 1, 1, 0, -1, -1, 0, -1, -1, 0, 1, 1, 0, -1, -1, 0, -1, -1,
    0, 1, 1, 0, 2, 2, 0, 2, 2, 0, 1, 1, 0, -1, -1, 0, -1, -1, 0, 1, 1, 0, -1, -1, 0, -1, -1,
    0, 1, 1, 0, 2, 2, 0, 2, 2, 0, 1, 1, 0, 3, 3, 0, 3, 3, 0, 1, 1, 0, 3, 3, 0, 3, 3,
    0, 1, 1, 0, 2, 2, 0, 2, 2, 0, 1, 1, 0, -1, -1, 0, -1, -1, 0, 1, 1, 0, -1, -1, 0, -1, -1,
    0, 1, 1, 0, 2, 2, 0, 2, 2, 0, 1, 1, 0, -1, -1, 0, -1, -1, 0, 1, 1, 0, -1, -1, 0, -1, -1,
    4, 4, 3, 4, 2, 4, 0, 4, 2, 5, 1, 5, 0, 3, 4, 5, 4, 5, 4, 4, 1, 4, 4, 4, 0, 4, 3,
    4, 4, 4, 4, 2, 4, 4, 4, 2, 5, 1, 5, 0, 4, 4, 5, 4, 5, 4, 4, 1, 4, 4, 4, 0, 4, 4,
    0, 4, 1, 4, 2, 2, 0, 4, 2, 5, 1, 1, 0, 4, 4, 5, 4, 4, 0, 4, 1, 4, 4, 4, 0, 4, 4,
    0, 1, 1, 0, 2, 2, 0, 2, 2, 0, 1, 1, 0, 3, 3, 0, 3, 5, 0, 1, 1, 0, 3, 3, 0, 3, 3,
    0, 1, 1, 0, 2, 2, 0, 2, 5, 0, 1, 1, 0, 5, 5, 0, 5, 5, 0, 1, 1, 0, 5, 5, 0, 5, 5,
    0, 1, 1, 0, 2, 2, 0, 2, 2, 0, 1, 1, 0, 5, 5, 0, 5, 5, 0, 1, 1, 0, 5, 5, 0, 5, 5,
    2, 2, 1, 2, 2, 2, 2, 2, 2, 5, 1, 5, 0, 3, 5, 5, 5, 5, 0, 1, 1, 0, 3, 3, 0, 3, 3,
    2, 2, 2, 2, 2, 2, 2, 2, 2, 5, 1, 5, 0, 5, 5, 5, 5, 5, 0, 1, 1, 0, 5, 5, 0, 5, 5,
    0, 1, 1, 0, 2, 2, 0, 2, 2, 5, 1, 1, 0, 5, 5, 5, 5, 5, 0, 1, 1, 0, 5, 5, 0, 5, 5,
    2, 2, 2, 2, 2, 2, 2, 2, 2, 0, 1, 1, 0, 3, 3, 0, 3, 3, 4, 4, 1, 4, 4, 4, 0, 4, 3,
    2, 2, 2, 2, 2, 2, 2, 2, 2, 0, 1, 1, 0, 4, 4, 0, 4, 4, 4, 4, 4, 4, 4, 4, 4, 4, 4,
    2, 2, 1, 2, 2, 2, 2, 2, 2, 0, 1, 1, 0, 4, 4, 0, 4, 4, 0, 4, 1, 4, 4, 4, 0, 4, 4,
    0, 1, 1, 0, 2, 2, 0, 2, 2, 0, 1, 1, 0, 3, 3, 0, 3, 3, 0, 1, 1, 0, 3, 3, 0, 3, 3,
    0, 1, 1, 0, 2, 2, 0, 2, 2, 0, 1, 1, 0, -1, -1, 0, -1, -1, 0, 1, 1, 0, -1, -1, 0, -1, -1,
    0, 1, 1, 0, 2, 2, 0, 2, 2, 0, 1, 1, 0, -1, -1, 0, -1, -1, 0, 1, 1, 0, -1, -1, 0, -1, -1,
    2, 2, 2, 2, 2, 2, 2, 2, 2, 0, 1, 1, 0, 3, 3, 0, 3, 3, 0, 1, 1, 0, 3, 3, 0, 3, 3,
    2, 2, 2, 2, 2, 2, 2, 2, 2, 0, 1, 1, 0, -1, -1, 0, -1, -1, 0, 1, 1, 0, -1, -1, 0, -1, -1,
    2, 2, 1, 2, 2, 2, 2, 2, 2, 0, 1, 1, 0, -1, -1, 0, -1, -1, 0, 1, 1, 0, -1, -1, 0, -1, -1,
    4, 4, 3, 4, 2, 4, 0, 4, 2, 0, 1, 3, 0, 3, 4, 0, 4, 3, 4, 4, 1, 4, 4, 4, 0, 4, 3,
    4, 4, 1, 4, 2, 4, 0, 4, 2, 0, 1, 1, 0, 4, 4, 0, 4, 4, 4, 4, 1, 4, 4, 4, 0, 4, 4,
    0, 4, 1, 4, 2, 2, 0, 4, 2, 0, 1, 1, 0, 4, 4, 0, 4, 4, 0, 4, 1, 4, 4, 4, 0, 4, 4,
    0, 1, 1, 0, 2, 2, 0, 2, 2, 0, 1, 1, 0, 3, 3, 0, 3, 3, 0, 1, 1, 0, 3, 3, 0, 3, 3,
    0, 1, 1, 0, 2, 2, 0, 2, 2, 0, 1, 1, 0, -1, -1, 0, -1, -1, 0, 1, 1, 0, -1, -1, 0, -1, -1,
    0, 1, 1, 0, 2, 2, 0, 2, 2, 0, 1, 1, 0, -1, -1, 0, -1, -1, 0, 1, 1, 0, -1, -1, 0, -1, -1,
    0, 1, 1, 0, 2, 2, 0, 2, 2, 3, 1, 3, 0, 3, 3, 3, 3, 3, 0, 1, 1, 0, 3, 3, 0, 3, 3,
    2, 2, 2, 2, 2, 2, 2, 2, 2, 0, 1, 1, 0, -1, -1, 0, -1, -1, 0, 1, 1, 0, -1, -1, 0, -1, -1,
    0, 1, 1, 0, 2, 2, 0, 2, 2, 0, 1, 1, 0, -1, -1, 0, -1, -1, 0, 1, 1, 0, -1, -1, 0, -1, -1,
    2, 4, 1, 0, 2, 2, 4, 4, 2, 5, 1, 5, 0, 3, 5, 5, 4, 5, 1, 4, 1, 0, 4, 3, 0, 4, 3,
    0, 4, 5, 0, 2, 5, 4, 4, 2, 5, 1, 5, 0, 4, 5, 5, 4, 5, 0, 4, 1, 0, 4, 4, 0, 4, 4,
    2, 4, 6, 0, 2, 6, 4, 4, 2, 5, 1, 5, 0, 4, 5, 5, 4, 5, 0, 4, 1, 4, 4, 6, 0, 4, 4,
    0, 1, 2, 0, 2, 2, 0, 2, 2, 0, 1, 5, 0, 3, 5, 0, 3, 5, 0, 1, 1, 0, 3, 3, 0, 3, 3,
    0, 1, 5, 0, 2, 5, 0, 2, 5, 0, 1, 5, 0, 5, 5, 0, 5, 5, 0, 1, 5, 0, 5, 5, 0, 5, 5,
    0, 1, 6, 0, 2, 6, 0, 2, 2, 0, 1, 5, 0, 5, 5, 0, 5, 5, 0, 1, 1, 0, 5, 6, 0, 5, 5,
    1, 1, 1, 2, 2, 2, 0, 2, 2, 5, 1, 5, 0, 3, 5, 0, 3, 3, 0, 1, 1, 6, 6, 6, 0, 3, 3,
    1, 6, 1, 0, 2, 2, 0, 6, 2, 5, 1, 5, 0, 5, 5, 0, 6, 5, 0, 6, 1, 6, 6, 6, 0, 6, 5,
    0, 1, 1, 5, 2, 2, 0, 2, 2, 5, 1, 5, 0, 5, 5, 0, 5, 5, 0, 1, 1, 0, 5, 5, 0, 5, 5,
    2, 2, 2, 2, 2, 2, 2, 2, 2, 0, 1, 1, 0, 3, 3, 0, 3, 3, 4, 4, 1, 4, 4, 3, 0, 4, 3,
    2, 2, 2, 2, 2, 2, 2, 2, 2, 0, 1, 1, 0, 4, 4, 0, 4, 4, 4, 4, 4, 4, 4, 4, 4, 4, 4,
    2, 2, 2, 2, 2, 2, 2, 2, 2, 0, 1, 1, 0, 4, 4, 0, 4, 4, 0, 4, 1, 0, 4, 6, 0, 4, 4,
    0, 1, 2, 0, 2, 2, 0, 2, 2, 0, 1, 1, 0, 3, 3, 0, 3, 3, 0, 1, 3, 0, 3, 3, 0, 3, 3,
    0, 1, 1, 0, 2, 2, 0, 2, 2, 0, 1, 1, 0, 6, 6, 0, 6, 6, 0, 1, 1, 0, 6, 6, 0, 6, 6,
    0, 1, 2, 0, 2, 2, 0, 2, 2, 0, 1, 1, 0, 6, 6, 0, 6, 6, 0, 1, 1, 0, 6, 6, 0, 6, 6,
    2, 2, 2, 2, 2, 2, 0, 2, 2, 0, 1, 1, 0, 3, 3, 0, 3, 3, 0, 1, 1, 6, 6, 6, 0, 3, 3,
    2, 2, 2, 2, 2, 2, 0, 6, 2, 0, 1, 1, 0, 6, 6, 0, 6, 6, 0, 6, 1, 6, 6, 6, 0, 6, 6,
    2, 2, 2, 2, 2, 2, 0, 2, 2, 0, 1, 1, 0, 6, 6, 0, 6, 6, 0, 1, 1, 6, 6, 6, 0, 6, 6,
    1, 4, 4, 0, 2, 3, 4, 4, 2, 0, 1, 3, 0, 3, 3, 4, 4, 4, 4, 4, 1, 3, 4, 3, 0, 4, 3,
    0, 4, 1, 0, 2, 2, 4, 4, 2, 0, 1, 1, 0, 4, 4, 4, 4, 4, 0, 4, 1, 0, 4, 4, 0, 4, 4,
    4, 4, 1, 4, 2, 2, 4, 4, 2, 4, 1, 1, 0, 4, 4, 4, 4, 4, 4, 4, 1, 4, 4, 4, 0, 4, 4,
    0, 1, 1, 0, 2, 2, 0, 2, 2, 0, 1, 6, 0, 3, 6, 0, 3, 6, 0, 1, 1, 0, 3, 3, 0, 3, 3,
    0, 1, 1, 0, 2, 2, 0, 2, 2, 0, 1, 6, 0, 6, 6, 0, 6, 6, 0, 1, 1, 0, 6, 6, 0, 6, 6,
    0, 1, 6, 0, 2, 6, 0, 2, 2, 0, 1, 6, 0, 6, 6, 0, 6, 6, 0, 1, 1, 0, 6, 6, 0, 6, 6,
    0, 1, 1, 3, 2, 3, 0, 2, 2, 0, 1, 1, 0, 3, 3, 0, 3, 3, 0, 1, 1, 0, 3, 3, 0, 3, 3,
    1, 6, 1, 0, 2, 2, 0, 6, 2, 1, 1, 1, 0, 6, 6, 0, 6, 6, 0, 6, 1, 6, 6, 6, 0, 6, 6,
    0, 1, 1, 0, 2, 2, 0, 2, 2, 0, 1, 1, 0, 6, 6, 0, 6, 6, 0, 1, 1, 0, 6, 6, 0, 6, 6,
    0, 3, 2, 0, 2, 2, 4, 3, 2, 4, 1, 4, 0, 3, 4, 4, 3, 4, 0, 3, 1, 0, 3, 3, 0, 3, 3,
    0, 1, 2, 0, 2, 2, 0, 2, 2, 0, 1, 4, 0, 4, 4, 0, 4, 4, 0, 1, 1, 0, 4, 4, 0, 4, 4,
    2, 4, 2, 0, 2, 2, 4, 4, 2, 4, 1, 4, 0, 4, 4, 4, 4, 4, 1, 4, 1, 0, 4, 4, 0, 4, 4,
    0, 1, 2, 0, 2, 2, 0, 2, 2, 0, 1, 1, 0, 3, 3, 0, 3, 3, 0, 1, 1, 0, 3, 3, 0, 3, 3,
    0, 1, 2, 0, 2, 2, 0, 2, 2, 0, 1, 1, 0, 5, 5, 0, 5, 5, 0, 1, 5, 0, 5, 5, 0, 5, 5,
    0, 1, 2, 0, 2, 2, 0, 2, 2, 0, 1, 1, 0, 5, 5, 0, 5, 5, 0, 1, 1, 0, 5, 5, 0, 5, 5,
    1, 3, 1, 0, 2, 2, 0, 3, 2, 5, 1, 5, 0, 3, 5, 0, 3, 3, 1, 3, 1, 0, 3, 3, 0, 3, 3,
    0, 1, 1, 0, 2, 2, 0, 2, 2, 0, 1, 5, 0, 5, 5, 0, 5, 5, 0, 1, 1, 0, 5, 5, 0, 5, 5,
    0, 1, 1, 5, 2, 5, 0, 2, 2, 5, 1, 5, 0, 5, 5, 0, 5, 5, 0, 1, 1, 5, 5, 5, 0, 5, 5,
    2, 2, 2, 2, 2, 2, 2, 2, 2, 0, 1, 1, 0, 3, 3, 0, 3, 3, 0, 3, 1, 0, 3, 3, 0, 3, 3,
    0, 1, 2, 0, 2, 2, 0, 2, 2, 0, 1, 1, 0, 4, 4, 0, 4, 4, 0, 1, 4, 0, 4, 4, 0, 4, 4,
    2, 2, 2, 2, 2, 2, 2, 2, 2, 0, 1, 1, 0, 4, 4, 0, 4, 4, 0, 4, 1, 0, 4, 4, 0, 4, 4,
    0, 1, 2, 0, 2, 2, 0, 2, 2, 0, 1, 1, 0, 3, 3, 0, 3, 3, 0, 1, 3, 0, 3, 3, 0, 3, 3,
    0, 1, 1, 0, 2, 2, 0, 2, 2, 0, 1, 1, 0, -1, -1, 0, -1, -1, 0, 1, 1, 0, -1, -1, 0, -1, -1,
    0, 1, 2, 0, 2, 2, 0, 2, 2, 0, 1, 1, 0, -1, -1, 0, -1, -1, 0, 1, 1, 0, -1, -1, 0, -1, -1,
    2, 2, 2, 2, 2, 2, 0, 3, 2, 0, 1, 1, 0, 3, 3, 0, 3, 3, 1, 3, 1, 0, 3, 3, 0, 3, 3,
    0, 1, 2, 0, 2, 2, 0, 2, 2, 0, 1, 1, 0, -1, -1, 0, -1, -1, 0, 1, 1, 0, -1, -1, 0, -1, -1,
    2, 2, 2, 2, 2, 2, 0, 2, 2, 0, 1, 1, 0, -1, -1, 0, -1, -1, 1, 1, 1, 0, -1, -1, 0, -1, -1,
    0, 3, 1, 0, 2, 2, 4, 3, 2, 4, 1, 4, 0, 3, 4, 4, 3, 4, 0, 3, 1, 0, 3, 3, 0, 3, 3,
    0, 1, 1, 0, 2, 2, 0, 2, 2, 0, 1, 4, 0, 4, 4, 0, 4, 4, 0, 1, 1, 0, 4, 4, 0, 4, 4,
    4, 4, 4, 4, 2, 4, 4, 4, 2, 4, 1, 4, 0, 4, 4, 4, 4, 4, 4, 4, 1, 4, 4, 4, 0, 4, 4,
    0, 1, 2, 0, 2, 2, 0, 2, 2, 0, 1, 1, 0, 3, 3, 0, 3, 3, 0, 1, 1, 0, 3, 3, 0, 3, 3,
    0, 1, 2, 0, 2, 2, 0, 2, 2, 0, 1, 1, 0, -1, -1, 0, -1, -1, 0, 1, 1, 0, -1, -1, 0, -1, -1,
    0, 1, 2, 0, 2, 2, 0, 2, 2, 0, 1, 1, 0, -1, -1, 0, -1, -1, 0, 1, 1, 0, -1, -1, 0, -1, -1,
    0, 3, 1, 3, 2, 3, 0, 3, 2, 0, 1, 1, 0, 3, 3, 0, 3, 3, 0, 3, 1, 3, 3, 3, 0, 3, 3,
    0, 1, 1, 0, 2, 2, 0, 2, 2, 0, 1, 1, 0, -1, -1, 0, -1, -1, 0, 1, 1, 0, -1, -1, 0, -1, -1,
    0, 1, 1, 0, 2, 2, 0, 2, 2, 0, 1, 1, 0, -1, -1, 0, -1, -1, 0, 1, 1, 0, -1, -1, 0, -1, -1,
    2, 4, 3, 0, 2, 3, 4, 4, 2, 5, 1, 5, 0, 3, 5, 5, 4, 5, 4, 4, 1, 4, 4, 3, 0, 4, 3,
    4, 4, 5, 0, 2, 5, 4, 4, 2, 5, 1, 5, 0, 4, 5, 5, 4, 5, 4, 4, 1, 4, 4, 4, 0, 4, 4,
    0, 4, 1, 0, 2, 2, 0, 4, 2, 5, 1, 1, 0, 4, 4, 5, 4, 4, 0, 4, 1, 0, 4, 4, 0, 4, 4,
    0, 1, 3, 0, 2, 3, 0, 2, 2, 0, 1, 5, 0, 3, 5, 0, 3, 5, 0, 1, 1, 0, 3, 3, 0, 3, 3,
    0, 1, 5, 0, 2, 5, 0, 2, 5, 0, 1, 5, 0, 5, 5, 0, 5, 5, 0, 1, 5, 0, 5, 5, 0, 5, 5,
    0, 1, 1, 0, 2, 2, 0, 2, 2, 0, 1, 1, 0, 5, 5, 0, 5, 5, 0, 1, 1, 0, 5, 5, 0, 5, 5,
    0, 1, 1, 2, 2, 2, 0, 2, 2, 5, 1, 5, 0, 3, 5, 0, 3, 3, 0, 1, 1, 0, 3, 3, 0, 3, 3,
    0, 1, 1, 2, 2, 2, 0, 2, 2, 5, 1, 5, 0, 5, 5, 0, 5, 5, 0, 1, 1, 0, 5, 5, 0, 5, 5,
    0, 1, 1, 0, 2, 2, 0, 2, 2, 5, 1, 1, 0, 5, 5, 0, 5, 5, 0, 1, 1, 0, 5, 5, 0, 5, 5,
    2, 2, 2, 2, 2, 2, 2, 2, 2, 0, 1, 1, 0, 3, 3, 0, 3, 3, 4, 4, 1, 4, 4, 3, 0, 4, 3,
    2, 2, 2, 2, 2, 2, 2, 2, 2, 0, 1, 1, 0, 4, 4, 0, 4, 4, 4, 4, 4, 4, 4, 4, 4, 4, 4,
    2, 2, 1, 2, 2, 2, 2, 2, 2, 0, 1, 1, 0, 4, 4, 0, 4, 4, 0, 4, 1, 0, 4, 4, 0, 4, 4,
    0, 1, 2, 0, 2, 2, 0, 2, 2, 0, 1, 1, 0, 3, 3, 0, 3, 3, 0, 1, 3, 0, 3, 3, 0, 3, 3,
    0, 1, 1, 0, 2, 2, 0, 2, 2, 0, 1, 1, 0, -1, -1, 0, -1, -1, 0, 1, 1, 0, -1, -1, 0, -1, -1,
    0, 1, 1, 0, 2, 2, 0, 2, 2, 0, 1, 1, 0, -1, -1, 0, -1, -1, 0, 1, 1, 0, -1, -1, 0, -1, -1,
    2, 2, 2, 2, 2, 2, 0, 2, 2, 0, 1, 1, 0, 3, 3, 0, 3, 3, 0, 1, 1, 0, 3, 3, 0, 3, 3,
    2, 2, 2, 2, 2, 2, 0, 2, 2, 0, 1, 1, 0, -1, -1, 0, -1, -1, 0, 1, 1, 0, -1, -1, 0, -1, -1,
    2, 2, 1, 2, 2, 2, 0, 2, 2, 0, 1, 1, 0, -1, -1, 0, -1, -1, 0, 1, 1, 0, -1, -1, 0, -1, -1,
    4, 4, 3, 0, 2, 3, 4, 4, 2, 0, 1, 3, 0, 3, 3, 4, 4, 3, 4, 4, 1, 4, 4, 3, 0, 4, 3,
    1, 4, 1, 0, 2, 2, 4, 4, 2, 0, 1, 1, 0, 4, 4, 4, 4, 4, 4, 4, 1, 4, 4, 4, 0, 4, 4,
    0, 4, 1, 0, 2, 2, 0, 4, 2, 0, 1, 1, 0, 4, 4, 0, 4, 4, 0, 4, 1, 0, 4, 4, 0, 4, 4,
    0, 1, 3, 0, 2, 3, 0, 2, 2, 0, 1, 3, 0, 3, 3, 0, 3, 3, 0, 1, 1, 0, 3, 3, 0, 3, 3,
    0, 1, 1, 0, 2, 2, 0, 2, 2, 0, 1, 1, 0, -1, -1, 0, -1, -1, 0, 1, 1, 0, -1, -1, 0, -1, -1,
    0, 1, 1, 0, 2, 2, 0, 2, 2, 0, 1, 1, 0, -1, -1, 0, -1, -1, 0, 1, 1, 0, -1, -1, 0, -1, -1,
    0, 1, 1, 0, 2, 2, 0, 2, 2, 0, 1, 1, 0, 3, 3, 0, 3, 3, 0, 1, 1, 0, 3, 3, 0, 3, 3,
    0, 1, 1, 2, 2, 2, 0, 2, 2, 1, 1, 1, 0, -1, -1, 0, -1, -1, 0, 1, 1, 0, -1, -1, 0, -1, -1,
    0, 1, 1, 0, 2, 2, 0, 2, 2, 0, 1, 1, 0, -1, -1, 0, -1, -1, 0, 1, 1, 0, -1, -1, 0, -1, -1,
    4, 2, 4, 2, 2, 4, 0, 4, 2, 0, 1, 4, 0, 3, 4, 4, 6, 4, 5, 5, 1, 5, 5, 3, 0, 5, 3,
    6, 6, 4, 0, 2, 4, 4, 6, 2, 0, 1, 4, 0, 4, 4, 4, 6, 4, 5, 6, 1, 5, 6, 4, 0, 6, 4,
    0, 2, 1, 4, 2, 2, 0, 4, 2, 0, 1, 1, 0, 4, 4, 0, 4, 4, 5, 5, 1, 5, 5, 4, 0, 5, 4,
    0, 1, 1, 7, 2, 7, 0, 3, 2, 6, 1, 6, 0, 3, 6, 6, 6, 6, 5, 5, 1, 7, 7, 7, 0, 5, 3,
    5, 5, 5, 5, 2, 5, 5, 5, 5, 5, 1, 5, 0, 5, 5, 5, 5, 5, 5, 5, 5, 5, 5, 5, 5, 5, 5,
    0, 1, 6, 7, 2, 7, 0, 2, 2, 6, 1, 6, 0, 5, 6, 6, 6, 6, 5, 5, 1, 7, 7, 7, 0, 5, 5,
    0, 2, 1, 0, 2, 2, 0, 7, 2, 0, 1, 1, 0, 3, 3, 0, 7, 3, 0, 1, 1, 0, 3, 3, 0, 3, 3,
    0, 6, 1, 0, 2, 2, 0, 6, 2, 0, 1, 1, 0, 5, 5, 0, 6, 5, 0, 6, 1, 0, 6, 5, 0, 6, 5,
    0, 5, 1, 0, 2, 2, 0, 2, 2, 0, 1, 1, 0, 5, 5, 0, 5, 5, 0, 1, 1, 0, 5, 5, 0, 5, 5,
    0, 3, 4, 4, 2, 4, 4, 3, 2, 4, 1, 4, 0, 3, 4, 4, 3, 4, 4, 3, 1, 4, 3, 4, 0, 3, 3,
    4, 4, 4, 4, 2, 4, 4, 4, 4, 4, 1, 4, 0, 4, 4, 4, 4, 4, 4, 4, 4, 4, 4, 4, 4, 4, 4,
    0, 1, 1, 0, 2, 2, 0, 4, 2, 0, 1, 1, 0, 4, 4, 0, 4, 4, 0, 4, 1, 4, 4, 4, 0, 4, 4,
    3, 3, 3, 3, 2, 3, 3, 3, 3, 3, 1, 3, 0, 3, 3, 3, 3, 3, 3, 3, 3, 3, 3, 3, 3, 3, 3,
    0, 1, 1, 0, 2, 2, 0, 2, 2, 0, 1, 1, 0, 6, 6, 0, 6, 6, 0, 1, 1, 0, 6, 6, 0, 6, 6,
    0, 1, 6, 7, 2, 7, 0, 2, 2, 6, 1, 6, 0, 6, 6, 6, 6, 6, 0, 1, 1, 7, 7, 7, 0, 6, 6,
    0, 1, 1, 0, 2, 2, 0, 7, 2, 0, 1, 1, 0, 3, 3, 0, 7, 3, 0, 6, 1, 0, 6, 3, 0, 3, 3,
    0, 6, 1, 0, 2, 2, 0, 6, 2, 0, 1, 1, 0, 6, 6, 0, 6, 6, 0, 6, 1, 0, 6, 6, 0, 6, 6,
    0, 1, 1, 0, 2, 2, 0, 7, 2, 0, 1, 1, 0, 6, 6, 0, 7, 6, 0, 6, 1, 0, 6, 6, 0, 6, 6,
    2, 2, 1, 2, 2, 2, 2, 2, 2, 0, 1, 4, 0, 3, 4, 4, 6, 4, 0, 1, 1, 0, 3, 3, 0, 3, 3,
    2, 6, 1, 2, 2, 2, 2, 6, 2, 0, 1, 4, 0, 4, 4, 6, 6, 4, 0, 6, 1, 0, 6, 4, 0, 6, 4,
    0, 1, 1, 0, 2, 2, 0, 2, 2, 4, 1, 1, 0, 4, 4, 4, 4, 4, 0, 1, 1, 0, 4, 4, 0, 4, 4,
    2, 2, 2, 7, 2, 7, 2, 2, 2, 6, 1, 6, 0, 3, 6, 6, 6, 6, 0, 1, 1, 7, 7, 7, 0, 3, 3,
    2, 6, 2, 7, 2, 7, 2, 6, 2, 6, 1, 6, 0, 6, 6, 6, 6, 6, 0, 6, 1, 7, 6, 7, 0, 6, 6,
    2, 2, 1, 7, 2, 7, 2, 2, 2, 6, 1, 6, 0, 6, 6, 6, 6, 6, 0, 1, 1, 7, 7, 7, 0, 6, 6,
    0, 1, 1, 0, 2, 2, 0, 2, 2, 0, 1, 1, 0, 3, 3, 0, 3, 3, 0, 1, 1, 0, 3, 3, 0, 3, 3,
    0, 6, 1, 0, 2, 2, 0, 6, 2, 0, 1, 1, 0, 6, 6, 0, 6, 6, 0, 6, 1, 0, 6, 6, 0, 6, 6,
    0, 1, 1, 0, 2, 2, 0, 2, 2, 0, 1, 1, 0, 6, 6, 0, 6, 6, 0, 1, 1, 0, 6, 6, 0, 6, 6,
    0, 3, 4, 0, 2, 4, 0, 3, 2, 4, 1, 4, 0, 3, 4, 4, 3, 4, 5, 3, 1, 5, 3, 3, 0, 3, 3,
    0, 1, 4, 0, 2, 4, 0, 2, 2, 0, 1, 4, 0, 4, 4, 0, 4, 4, 0, 1, 1, 0, 4, 4, 0, 4, 4,
    4, 2, 4, 2, 2, 4, 0, 4, 2, 4, 1, 4, 0, 4, 4, 4, 4, 4, 5, 5, 1, 5, 5, 4, 0, 5, 4,
    2, 2, 2, 2, 2, 2, 2, 2, 2, 0, 1, 1, 0, 3, 3, 0, 3, 3, 5, 3, 1, 7, 3, 7, 0, 3, 3,
    0, 1, 2, 0, 2, 2, 0, 2, 2, 0, 1, 1, 0, 5, 5, 0, 5, 5, 0, 1, 5, 0, 5, 5, 0, 5, 5,
    2, 2, 2, 2, 2, 2, 2, 2, 2, 0, 1, 1, 0, 5, 5, 0, 5, 5, 5, 5, 1, 7, 7, 7, 0, 5, 5,
    0, 3, 1, 0, 2, 2, 0, 3, 2, 0, 1, 1, 0, 3, 3, 0, 3, 3, 0, 3, 1, 0, 3, 3, 0, 3, 3,
    0, 1, 1, 0, 2, 2, 0, 2, 2, 0, 1, 1, 0, 5, 5, 0, 5, 5, 0, 1, 1, 0, 5, 5, 0, 5, 5,
    0, 5, 1, 0, 2, 2, 0, 2, 2, 0, 1, 1, 0, 5, 5, 0, 5, 5, 0, 5, 1, 0, 5, 5, 0, 5, 5,
    3, 3, 4, 0, 2, 4, 3, 3, 2, 4, 1, 4, 0, 3, 4, 4, 3, 4, 3, 3, 1, 3, 3, 4, 0, 3, 3,
    0, 1, 4, 0, 2, 4, 0, 2, 4, 0, 1, 4, 0, 4, 4, 0, 4, 4, 0, 1, 4, 0, 4, 4, 0, 4, 4,
    0, 2, 4, 2, 2, 4, 0, 2, 2, 4, 1, 4, 0, 4, 4, 4, 4, 4, 0, 1, 1, 0, 4, 4, 0, 4, 4,
    2, 2, 2, 2, 2, 2, 2, 2, 2, 0, 1, 1, 0, 3, 3, 0, 3, 3, 3, 3, 3, 3, 3, 3, 3, 3, 3,
    0, 1, 1, 0, 2, 2, 0, 2, 2, 0, 1, 1, 0, 7, 7, 0, 7, 7, 0, 1, 1, 0, 7, 7, 0, 7, 7,
    2, 2, 2, 2, 2, 2, 2, 2, 2, 0, 1, 1, 0, 7, 7, 0, 7, 7, 0, 1, 1, 7, 7, 7, 0, 7, 7,
    0, 3, 1, 0, 2, 2, 0, 3, 2, 0, 1, 1, 0, 3, 3, 0, 3, 3, 0, 3, 1, 0, 3, 3, 0, 3, 3,
    0, 1, 1, 0, 2, 2, 0, 2, 2, 0, 1, 1, 0, 7, 7, 0, 7, 7, 0, 1, 1, 0, 7, 7, 0, 7, 7,
    0, 1, 1, 0, 2, 2, 0, 7, 2, 0, 1, 1, 0, 7, 7, 0, 7, 7, 0, 1, 1, 0, 7, 7, 0, 7, 7,
    2, 3, 1, 2, 2, 2, 2, 3, 2, 4, 1, 4, 0, 3, 4, 4, 3, 4, 0, 3, 1, 0, 3, 3, 0, 3, 3,
    0, 1, 1, 0, 2, 2, 0, 2, 2, 0, 1, 4, 0, 4, 4, 0, 4, 4, 0, 1, 1, 0, 4, 4, 0, 4, 4,
    0, 1, 1, 0, 2, 2, 0, 2, 2, 4, 1, 4, 0, 4, 4, 4, 4, 4, 0, 1, 1, 0, 4, 4, 0, 4, 4,
    2, 2, 2, 2, 2, 2, 2, 2, 2, 0, 1, 1, 0, 3, 3, 0, 3, 3, 0, 3, 1, 7, 3, 7, 0, 3, 3,
    0, 1, 2, 0, 2, 2, 0, 2, 2, 0, 1, 1, 0, 7, 7, 0, 7, 7, 0, 1, 1, 0, 7, 7, 0, 7, 7,
    2, 2, 2, 2, 2, 2, 2, 2, 2, 0, 1, 1, 0, 7, 7, 0, 7, 7, 0, 1, 1, 7, 7, 7, 0, 7, 7,
    0, 3, 1, 0, 2, 2, 0, 3, 2, 0, 1, 1, 0, 3, 3, 0, 3, 3, 0, 3, 1, 0, 3, 3, 0, 3, 3,
    0, 1, 1, 0, 2, 2, 0, 2, 2, 0, 1, 1, 0, 7, 7, 0, 7, 7, 0, 1, 1, 0, 7, 7, 0, 7, 7,
    0, 1, 1, 0, 2, 2, 0, 2, 2, 0, 1, 1, 0, 7, 7, 0, 7, 7, 0, 1, 1, 0, 7, 7, 0, 7, 7,
    7, 7, 1, 7, 2, 2, 7, 7, 2, 7, 1, 1, 0, 3, 3, 7, 7, 3, 0, 1, 1, 0, 3, 3, 0, 3, 3,
    7, 7, 1, 7, 2, 2, 7, 7, 2, 7, 1, 1, 0, 4, 4, 7, 7, 4, 0, 1, 1, 0, 4, 4, 0, 4, 4,
    0, 7, 1, 0, 2, 2, 0, 7, 2, 0, 1, 1, 0, 4, 4, 0, 7, 4, 0, 1, 1, 0, 4, 4, 0, 4, 4,
    7, 7, 1, 7, 2, 7, 7, 7, 2, 7, 1, 1, 0, 3, 7, 7, 7, 3, 0, 1, 1, 7, 7, 7, 0, 3, 3,
    5, 5, 5, 5, 2, 5, 5, 5, 5, 5, 1, 5, 0, 5, 5, 5, 5, 5, 5, 5, 5, 5, 5, 5, 5, 5, 5,
    0, 7, 1, 7, 2, 2, 0, 7, 2, 0, 1, 1, 0, 5, 5, 0, 7, 5, 0, 1, 1, 7, 7, 5, 0, 5, 5,
    0, 1, 1, 0, 2, 2, 0, 2, 2, 0, 1, 1, 0, 3, 3, 0, 7, 3, 0, 1, 1, 0, 3, 3, 0, 3, 3,
    0, 1, 1, 0, 2, 2, 0, 2, 2, 0, 1, 1, 0, 5, 5, 0, 7, 5, 0, 1, 1, 0, 5, 5, 0, 5, 5,
    0, 1, 1, 0, 2, 2, 0, 2, 2, 0, 1, 1, 0, 5, 5, 0, 5, 5, 0, 1, 1, 0, 5, 5, 0, 5, 5,
    7, 7, 1, 7, 2, 2, 7, 7, 2, 7, 1, 1, 0, 3, 3, 7, 7, 3, 0, 1, 1, 0, 3, 3, 0, 3, 3,
    4, 4, 4, 4, 2, 4, 4, 4, 4, 4, 1, 4, 0, 4, 4, 4, 4, 4, 4, 4, 4, 4, 4, 4, 4, 4, 4,
    0, 7, 1, 0, 2, 2, 0, 7, 2, 0, 1, 1, 0, 4, 4, 0, 7, 4, 0, 1, 1, 0, 4, 4, 0, 4, 4,
    3, 3, 3, 3, 2, 3, 3, 3, 3, 3, 1, 3, 0, 3, 3, 3, 3, 3, 3, 3, 3, 3, 3, 3, 3, 3, 3,
    0, 1, 1, 0, 2, 2, 0, 2, 2, 0, 1, 1, 0, 7, 7, 0, 7, 7, 0, 1, 1, 0, 7, 7, 0, 7, 7,
    0, 7, 1, 7, 2, 2, 0, 7, 2, 0, 1, 1, 0, 7, 7, 0, 7, 7, 0, 7, 1, 7, 7, 7, 0, 7, 7,
    0, 1, 1, 0, 2, 2, 0, 2, 2, 0, 1, 1, 0, 3, 3, 0, 7, 3, 0, 1, 1, 0, 3, 3, 0, 3, 3,
    0, 1, 1, 0, 2, 2, 0, 2, 2, 0, 1, 1, 0, 7, 7, 0, 7, 7, 0, 1, 1, 0, 7, 7, 0, 7, 7,
    0, 1, 1, 0, 2, 2, 0, 2, 2, 0, 1, 1, 0, 7, 7, 0, 7, 7, 0, 1, 1, 0, 7, 7, 0, 7, 7,
    0, 1, 1, 0, 2, 2, 0, 2, 2, 7, 1, 1, 0, 3, 3, 7, 7, 3, 0, 1, 1, 0, 3, 3, 0, 3, 3,
    0, 1, 1, 0, 2, 2, 0, 2, 2, 7, 1, 1, 0, 4, 4, 7, 7, 4, 0, 1, 1, 0, 4, 4, 0, 4, 4,
    0, 1, 1, 0, 2, 2, 0, 2, 2, 0, 1, 1, 0, 4, 4, 0, 4, 4, 0, 1, 1, 0, 4, 4, 0, 4, 4,
    0, 1, 1, 7, 2, 7, 0, 2, 2, 7, 1, 1, 0, 3, 7, 7, 7, 3, 0, 1, 1, 7, 7, 7, 0, 3, 3,
    0, 1, 1, 7, 2, 7, 0, 2, 2, 7, 1, 7, 0, 7, 7, 7, 7, 7, 0, 1, 1, 7, 7, 7, 0, 7, 7,
    0, 1, 1, 7, 2, 2, 0, 2, 2, 0, 1, 1, 0, 7, 7, 0, 7, 7, 0, 1, 1, 7, 7, 7, 0, 7, 7,
    0, 1, 1, 0, 2, 2, 0, 2, 2, 0, 1, 1, 0, 3, 3, 0, 3, 3, 0, 1, 1, 0, 3, 3, 0, 3, 3,
    0, 1, 1, 0, 2, 2, 0, 2, 2, 0, 1, 1, 0, 7, 7, 0, 7, 7, 0, 1, 1, 0, 7, 7, 0, 7, 7,
    0, 1, 1, 0, 2, 2, 0, 2, 2, 0, 1, 1, 0, 7, 7, 0, 7, 7, 0, 1, 1, 0, 7, 7, 0, 7, 7,
    0, 1, 4, 4, 2, 4, 0, 2, 2, 1, 1, 4, 0, 3, 4, 0, 6, 4, 5, 5, 1, 4, 4, 4, 0, 5, 3,
    4, 6, 4, 4, 2, 4, 0, 6, 2, 0, 1, 4, 0, 4, 4, 4, 6, 4, 5, 6, 1, 4, 4, 4, 0, 6, 4,
    4, 1, 1, 4, 2, 4, 0, 2, 2, 1, 1, 1, 0, 4, 4, 0, 4, 4, 5, 5, 1, 4, 4, 4, 0, 5, 4,
    1, 1, 1, 0, 2, 2, 0, 3, 2, 1, 1, 1, 0, 3, 3, 6, 6, 6, 1, 1, 1, 0, 3, 3, 0, 5, 3,
    1, 1, 1, 0, 2, 2, 5, 5, 5, 1, 1, 1, 0, 5, 5, 5, 5, 5, 1, 1, 1, 0, 5, 5, 5, 5, 5,
    1, 1, 1, 0, 2, 2, 0, 2, 2, 1, 1, 1, 0, 5, 5, 6, 6, 6, 1, 1, 1, 0, 5, 5, 0, 5, 5,
    0, 2, 1, 0, 2, 2, 0, 2, 2, 0, 1, 1, 0, 3, 3, 0, 3, 3, 0, 1, 1, 0, 3, 3, 0, 3, 3,
    0, 6, 1, 0, 2, 2, 0, 6, 2, 0, 1, 1, 0, 5, 5, 0, 6, 5, 0, 6, 1, 0, 6, 5, 0, 6, 5,
    0, 5, 1, 0, 2, 2, 0, 5, 2, 0, 1, 1, 0, 5, 5, 0, 5, 5, 0, 1, 1, 0, 5, 5, 0, 5, 5,
    4, 1, 4, 4, 2, 4, 0, 3, 2, 1, 1, 4, 0, 3, 4, 4, 3, 4, 4, 3, 1, 4, 4, 4, 0, 3, 3,
    4, 4, 4, 4, 2, 4, 4, 4, 4, 4, 1, 4, 0, 4, 4, 4, 4, 4, 4, 4, 4, 4, 4, 4, 4, 4, 4,
    0, 1, 1, 4, 2, 4, 0, 2, 2, 1, 1, 1, 0, 4, 4, 0, 4, 4, 0, 1, 1, 4, 4, 4, 0, 4, 4,
    1, 1, 1, 0, 2, 2, 3, 3, 3, 1, 1, 1, 0, 3, 3, 3, 3, 3, 1, 1, 1, 0, 3, 3, 3, 3, 3,
    0, 1, 1, 0, 2, 2, 0, 2, 2, 0, 1, 1, 0, 6, 6, 0, 6, 6, 0, 1, 1, 0, 6, 6, 0, 6, 6,
    1, 1, 1, 0, 2, 2, 0, 2, 2, 1, 1, 1, 0, 6, 6, 6, 6, 6, 1, 1, 1, 0, 6, 6, 0, 6, 6,
    0, 1, 1, 0, 2, 2, 0, 2, 2, 0, 1, 1, 0, 3, 3, 0, 3, 3, 0, 6, 1, 0, 6, 3, 0, 6, 3,
    0, 6, 1, 0, 2, 2, 0, 6, 2, 0, 1, 1, 0, 6, 6, 0, 6, 6, 0, 6, 1, 0, 6, 6, 0, 6, 6,
    0, 1, 1, 0, 2, 2, 0, 2, 2, 0, 1, 1, 0, 6, 6, 0, 6, 6, 0, 6, 1, 0, 6, 6, 0, 6, 6,
    2, 2, 1, 4, 2, 4, 2, 2, 2, 1, 1, 4, 0, 3, 4, 0, 6, 4, 0, 1, 1, 4, 4, 4, 0, 3, 3,
    2, 6, 1, 4, 2, 4, 2, 6, 2, 0, 1, 4, 0, 4, 4, 6, 6, 4, 0, 6, 1, 4, 4, 4, 0, 6, 4,
    0, 1, 1, 4, 2, 4, 0, 2, 2, 4, 1, 1, 0, 4, 4, 4, 4, 4, 0, 1, 1, 4, 4, 4, 0, 4, 4,
    1, 1, 1, 0, 2, 2, 2, 2, 2, 1, 1, 1, 0, 3, 3, 6, 6, 6, 1, 1, 1, 0, 3, 3, 0, 3, 3,
    1, 1, 1, 0, 2, 2, 2, 6, 2, 1, 1, 1, 0, 6, 6, 6, 6, 6, 1, 1, 1, 0, 6, 6, 0, 6, 6,
    1, 1, 1, 0, 2, 2, 2, 2, 2, 1, 1, 1, 0, 6, 6, 6, 6, 6, 1, 1, 1, 0, 6, 6, 0, 6, 6,
    0, 1, 1, 0, 2, 2, 0, 2, 2, 0, 1, 1, 0, 3, 3, 0, 3, 3, 0, 1, 1, 0, 3, 3, 0, 3, 3,
    0, 6, 1, 0, 2, 2, 0, 6, 2, 0, 1, 1, 0, 6, 6, 0, 6, 6, 0, 6, 1, 0, 6, 6, 0, 6, 6,
    0, 1, 1, 0, 2, 2, 0, 2, 2, 0, 1, 1, 0, 6, 6, 0, 6, 6, 0, 1, 1, 0, 6, 6, 0, 6, 6,
    4, 3, 4, 4, 2, 4, 0, 3, 2, 4, 1, 4, 0, 3, 4, 4, 3, 4, 5, 3, 1, 4, 3, 4, 0, 3, 3,
    0, 1, 4, 0, 2, 4, 0, 2, 2, 0, 1, 4, 0, 4, 4, 0, 4, 4, 0, 1, 1, 0, 4, 4, 0, 4, 4,
    4, 1, 4, 4, 2, 4, 0, 2, 2, 4, 1, 4, 0, 4, 4, 4, 4, 4, 5, 5, 1, 4, 4, 4, 0, 5, 4,
    1, 1, 1, 0, 2, 2, 2, 2, 2, 0, 1, 1, 0, 3, 3, 0, 3, 3, 1, 1, 1, 0, 3, 3, 0, 3, 3,
    0, 1, 1, 0, 2, 2, 0, 2, 2, 0, 1, 1, 0, 5, 5, 0, 5, 5, 0, 1, 1, 0, 5, 5, 0, 5, 5,
    1, 1, 1, 0, 2, 2, 2, 2, 2, 0, 1, 1, 0, 5, 5, 0, 5, 5, 1, 1, 1, 0, 5, 5, 0, 5, 5,
    0, 3, 1, 0, 2, 2, 0, 3, 2, 0, 1, 1, 0, 3, 3, 0, 3, 3, 0, 3, 1, 0, 3, 3, 0, 3, 3,
    0, 1, 1, 0, 2, 2, 0, 2, 2, 0, 1, 1, 0, 5, 5, 0, 5, 5, 0, 1, 1, 0, 5, 5, 0, 5, 5,
    0, 5, 1, 0, 2, 2, 0, 5, 2, 0, 1, 1, 0, 5, 5, 0, 5, 5, 0, 5, 1, 0, 5, 5, 0, 5, 5,
    3, 3, 4, 4, 2, 4, 3, 3, 2, 4, 1, 4, 0, 3, 4, 4, 3, 4, 3, 3, 1, 4, 3, 4, 0, 3, 3,
    0, 1, 4, 0, 2, 4, 0, 2, 4, 0, 1, 4, 0, 4, 4, 0, 4, 4, 0, 1, 4, 0, 4, 4, 0, 4, 4,
    4, 1, 4, 4, 2, 4, 0, 2, 2, 4, 1, 4, 0, 4, 4, 4, 4, 4, 0, 1, 1, 4, 4, 4, 0, 4, 4,
    1, 1, 1, 0, 2, 2, 2, 2, 2, 0, 1, 1, 0, 3, 3, 0, 3, 3, 1, 1, 1, 0, 3, 3, 3, 3, 3,
    0, 1, 1, 0, 2, 2, 0, 2, 2, 0, 1, 1, 0, -1, -1, 0, -1, -1, 0, 1, 1, 0, -1, -1, 0, -1, -1,
    1, 1, 1, 0, 2, 2, 2, 2, 2, 0, 1, 1, 0, -1, -1, 0, -1, -1, 1, 1, 1, 0, -1, -1, 0, -1, -1,
    0, 3, 1, 0, 2, 2, 0, 3, 2, 0, 1, 1, 0, 3, 3, 0, 3, 3, 0, 3, 1, 0, 3, 3, 0, 3, 3,
    0, 1, 1, 0, 2, 2, 0, 2, 2, 0, 1, 1, 0, -1, -1, 0, -1, -1, 0, 1, 1, 0, -1, -1, 0, -1, -1,
    0, 1, 1, 0, 2, 2, 0, 2, 2, 0, 1, 1, 0, -1, -1, 0, -1, -1, 0, 1, 1, 0, -1, -1, 0, -1, -1,
    2, 3, 1, 4, 2, 4, 2, 3, 2, 4, 1, 4, 0, 3, 4, 4, 3, 4, 0, 3, 1, 4, 3, 4, 0, 3, 3,
    0, 1, 1, 0, 2, 4, 0, 2, 2, 0, 1, 4, 0, 4, 4, 0, 4, 4, 0, 1, 1, 0, 4, 4, 0, 4, 4,
    0, 1, 1, 4, 2, 4, 0, 2, 2, 4, 1, 4, 0, 4, 4, 4, 4, 4, 0, 1, 1, 4, 4, 4, 0, 4, 4,
    1, 1, 1, 0, 2, 2, 2, 2, 2, 0, 1, 1, 0, 3, 3, 0, 3, 3, 1, 1, 1, 0, 3, 3, 0, 3, 3,
    0, 1, 1, 0, 2, 2, 0, 2, 2, 0, 1, 1, 0, -1, -1, 0, -1, -1, 0, 1, 1, 0, -1, -1, 0, -1, -1,
    1, 1, 1, 0, 2, 2, 2, 2, 2, 0, 1, 1, 0, -1, -1, 0, -1, -1, 1, 1, 1, 0, -1, -1, 0, -1, -1,
    0, 3, 1, 0, 2, 2, 0, 3, 2, 0, 1, 1, 0, 3, 3, 0, 3, 3, 0, 3, 1, 0, 3, 3, 0, 3, 3,
    0, 1, 1, 0, 2, 2, 0, 2, 2, 0, 1, 1, 0, -1, -1, 0, -1, -1, 0, 1, 1, 0, -1, -1, 0, -1, -1,
    0, 1, 1, 0, 2, 2, 0, 2, 2, 0, 1, 1, 0, -1, -1, 0, -1, -1, 0, 1, 1, 0, -1, -1, 0, -1, -1,
    4, 1, 1, 4, 2, 4, 0, 2, 2, 1, 1, 1, 0, 3, 4, 0, 3, 3, 0, 1, 1, 4, 4, 4, 0, 3, 3,
    4, 1, 4, 4, 2, 4, 2, 2, 2, 1, 1, 4, 0, 4, 4, 0, 4, 4, 0, 1, 1, 4, 4, 4, 0, 4, 4,
    0, 1, 1, 4, 2, 2, 0, 2, 2, 0, 1, 1, 0, 4, 4, 0, 4, 4, 0, 1, 1, 4, 4, 4, 0, 4, 4,
    1, 1, 1, 0, 2, 2, 0, 2, 2, 1, 1, 1, 0, 3, 3, 0, 3, 3, 1, 1, 1, 0, 3, 3, 0, 5, 3,
    1, 1, 1, 0, 2, 2, 5, 5, 5, 1, 1, 1, 0, 5, 5, 5, 5, 5, 1, 1, 1, 0, 5, 5, 5, 5, 5,
    1, 1, 1, 0, 2, 2, 0, 2, 2, 1, 1, 1, 0, 5, 5, 0, 5, 5, 1, 1, 1, 0, 5, 5, 0, 5, 5,
    0, 2, 1, 0, 2, 2, 0, 2, 2, 0, 1, 1, 0, 3, 3, 0, 3, 3, 0, 1, 1, 0, 3, 3, 0, 3, 3,
    0, 2, 1, 0, 2, 2, 0, 2, 2, 0, 1, 1, 0, 5, 5, 0, 5, 5, 0, 1, 1, 0, 5, 5, 0, 5, 5,
    0, 1, 1, 0, 2, 2, 0, 2, 2, 0, 1, 1, 0, 5, 5, 0, 5, 5, 0, 1, 1, 0, 5, 5, 0, 5, 5,
    4, 1, 1, 4, 2, 4, 0, 2, 2, 1, 1, 1, 0, 3, 4, 0, 3, 3, 4, 4, 1, 4, 4, 4, 0, 4, 3,
    4, 4, 4, 4, 2, 4, 4, 4, 4, 4, 1, 4, 0, 4, 4, 4, 4, 4, 4, 4, 4, 4, 4, 4, 4, 4, 4,
    0, 1, 1, 4, 2, 2, 0, 2, 2, 0, 1, 1, 0, 4, 4, 0, 4, 4, 0, 4, 1, 4, 4, 4, 0, 4, 4,
    1, 1, 1, 0, 2, 2, 3, 3, 3, 1, 1, 1, 0, 3, 3, 3, 3, 3, 1, 1, 1, 0, 3, 3, 3, 3, 3,
    0, 1, 1, 0, 2, 2, 0, 2, 2, 0, 1, 1, 0, -1, -1, 0, -1, -1, 0, 1, 1, 0, -1, -1, 0, -1, -1,
    1, 1, 1, 0, 2, 2, 0, 2, 2, 1, 1, 1, 0, -1, -1, 0, -1, -1, 1, 1, 1, 0, -1, -1, 0, -1, -1,
    0, 2, 1, 0, 2, 2, 0, 2, 2, 0, 1, 1, 0, 3, 3, 0, 3, 3, 0, 1, 1, 0, 3, 3, 0, 3, 3,
    0, 2, 1, 0, 2, 2, 0, 2, 2, 0, 1, 1, 0, -1, -1, 0, -1, -1, 0, 1, 1, 0, -1, -1, 0, -1, -1,
    0, 2, 1, 0, 2, 2, 0, 2, 2, 0, 1, 1, 0, -1, -1, 0, -1, -1, 0, 1, 1, 0, -1, -1, 0, -1, -1,
    2, 2, 1, 4, 2, 4, 2, 2, 2, 1, 1, 1, 0, 3, 4, 0, 3, 3, 0, 1, 1, 4, 4, 4, 0, 3, 3,
    2, 2, 1, 4, 2, 4, 2, 2, 2, 1, 1, 4, 0, 4, 4, 0, 4, 4, 0, 1, 1, 4, 4, 4, 0, 4, 4,
    0, 1, 1, 4, 2, 2, 0, 2, 2, 0, 1, 1, 0, 4, 4, 0, 4, 4, 0, 1, 1, 4, 4, 4, 0, 4, 4,
    1, 1, 1, 0, 2, 2, 2, 2, 2, 1, 1, 1, 0, 3, 3, 0, 3, 3, 1, 1, 1, 0, 3, 3, 0, 3, 3,
    1, 1, 1, 0, 2, 2, 2, 2, 2, 1, 1, 1, 0, -1, -1, 0, -1, -1, 1, 1, 1, 0, -1, -1, 0, -1, -1,
    1, 1, 1, 0, 2, 2, 0, 2, 2, 1, 1, 1, 0, -1, -1, 0, -1, -1, 1, 1, 1, 0, -1, -1, 0, -1, -1,
    0, 1, 1, 0, 2, 2, 0, 2, 2, 0, 1, 1, 0, 3, 3, 0, 3, 3, 0, 1, 1, 0, 3, 3, 0, 3, 3,
    0, 2, 1, 0, 2, 2, 0, 2, 2, 0, 1, 1, 0, -1, -1, 0, -1, -1, 0, 1, 1, 0, -1, -1, 0, -1, -1,
    0, 1, 1, 0, 2, 2, 0, 2, 2, 0, 1, 1, 0, -1, -1, 0, -1, -1, 0, 1, 1, 0, -1, -1, 0, -1, -1,
    6, 6, 1, 6, 2, 2, 0, 2, 2, 6, 1, 1, 0, 3, 3, 0, 3, 3, 0, 1, 1, 0, 3, 3, 0, 3, 3,
    6, 6, 1, 6, 2, 2, 0, 6, 2, 6, 1, 1, 0, 4, 4, 0, 6, 4, 0, 6, 1, 0, 6, 4, 0, 6, 4,
    6, 6, 1, 6, 2, 2, 0, 2, 2, 6, 1, 1, 0, 4, 4, 0, 4, 4, 0, 1, 1, 0, 4, 4, 0, 4, 4,
    6, 6, 6, 6, 2, 6, 6, 6, 2, 6, 1, 6, 0, 3, 6, 6, 6, 6, 0, 1, 1, 0, 3, 3, 0, 3, 3,
    5, 5, 5, 5, 2, 5, 5, 5, 5, 5, 1, 5, 0, 5, 5, 5, 5, 5, 5, 5, 5, 5, 5, 5, 5, 5, 5,
    6, 6, 6, 6, 2, 6, 6, 6, 2, 6, 1, 6, 0, 5, 6, 6, 6, 6, 0, 1, 1, 0, 5, 5, 0, 5, 5,
    0, 1, 1, 0, 2, 2, 0, 2, 2, 0, 1, 1, 0, 3, 3, 0, 3, 3, 0, 1, 1, 0, 3, 3, 0, 3, 3,
    0, 6, 1, 0, 2, 2, 0, 6, 2, 0, 1, 1, 0, 5, 5, 0, 6, 5, 0, 6, 1, 0, 6, 5, 0, 6, 5,
    0, 1, 1, 0, 2, 2, 0, 2, 2, 0, 1, 1, 0, 5, 5, 0, 5, 5, 0, 1, 1, 0, 5, 5, 0, 5, 5,
    6, 6, 1, 6, 2, 2, 0, 2, 2, 6, 1, 1, 0, 3, 3, 0, 3, 3, 6, 6, 1, 6, 6, 3, 0, 3, 3,
    4, 4, 4, 4, 2, 4, 4, 4, 4, 4, 1, 4, 0, 4, 4, 4, 4, 4, 4, 4, 4, 4, 4, 4, 4, 4, 4,
    6, 6, 1, 6, 2, 2, 0, 2, 2, 6, 1, 1, 0, 4, 4, 0, 4, 4, 6, 6, 1, 6, 6, 4, 0, 4, 4,
    3, 3, 3, 3, 2, 3, 3, 3, 3, 3, 1, 3, 0, 3, 3, 3, 3, 3, 3, 3, 3, 3, 3, 3, 3, 3, 3,
    0, 1, 1, 0, 2, 2, 0, 2, 2, 0, 1, 1, 0, 6, 6, 0, 6, 6, 0, 1, 1, 0, 6, 6, 0, 6, 6,
    6, 6, 6, 6, 2, 6, 6, 6, 2, 6, 1, 6, 0, 6, 6, 6, 6, 6, 6, 6, 1, 6, 6, 6, 0, 6, 6,
    0, 1, 1, 0, 2, 2, 0, 2, 2, 0, 1, 1, 0, 3, 3, 0, 3, 3, 0, 1, 1, 0, 6, 3, 0, 3, 3,
    0, 6, 1, 0, 2, 2, 0, 6, 2, 0, 1, 1, 0, 6, 6, 0, 6, 6, 0, 6, 1, 0, 6, 6, 0, 6, 6,
    0, 1, 1, 0, 2, 2, 0, 2, 2, 0, 1, 1, 0, 6, 6, 0, 6, 6, 0, 1, 1, 0, 6, 6, 0, 6, 6,
    0, 1, 1, 0, 2, 2, 0, 2, 2, 6, 1, 1, 0, 3, 3, 0, 3, 3, 0, 1, 1, 0, 3, 3, 0, 3, 3,
    0, 6, 1, 0, 2, 2, 0, 6, 2, 6, 1, 1, 0, 4, 4, 0, 6, 4, 0, 6, 1, 0, 6, 4, 0, 6, 4,
    0, 1, 1, 0, 2, 2, 0, 2, 2, 0, 1, 1, 0, 4, 4, 0, 4, 4, 0, 1, 1, 0, 4, 4, 0, 4, 4,
    0, 1, 1, 0, 2, 2, 0, 2, 2, 6, 1, 6, 0, 3, 6, 6, 6, 6, 0, 1, 1, 0, 3, 3, 0, 3, 3,
    0, 6, 1, 0, 2, 2, 0, 6, 2, 6, 1, 6, 0, 6, 6, 6, 6, 6, 0, 6, 1, 0, 6, 6, 0, 6, 6,
    0, 1, 1, 0, 2, 2, 0, 2, 2, 6, 1, 6, 0, 6, 6, 6, 6, 6, 0, 1, 1, 0, 6, 6, 0, 6, 6,
    0, 1, 1, 0, 2, 2, 0, 2, 2, 0, 1, 1, 0, 3, 3, 0, 3, 3, 0, 1, 1, 0, 3, 3, 0, 3, 3,
    0, 6, 1, 0, 2, 2, 0, 6, 2, 0, 1, 1, 0, 6, 6, 0, 6, 6, 0, 6, 1, 0, 6, 6, 0, 6, 6,
    0, 1, 1, 0, 2, 2, 0, 2, 2, 0, 1, 1, 0, 6, 6, 0, 6, 6, 0, 1, 1, 0, 6, 6, 0, 6, 6,
    0, 3, 4, 0, 2, 4, 4, 3, 2, 4, 1, 4, 0, 3, 4, 4, 3, 4, 5, 3, 1, 5, 3, 3, 0, 3, 3,
    0, 1, 4, 0, 2, 4, 0, 2, 2, 0, 1, 4, 0, 4, 4, 0, 4, 4, 0, 1, 1, 0, 4, 4, 0, 4, 4,
    4, 2, 4, 2, 2, 4, 4, 4, 2, 4, 1, 4, 0, 4, 4, 4, 4, 4, 5, 5, 1, 5, 5, 4, 0, 4, 4,
    2, 2, 2, 2, 2, 2, 2, 2, 2, 0, 1, 1, 0, 3, 3, 0, 3, 3, 5, 3, 1, 5, 3, 5, 0, 3, 3,
    0, 1, 2, 0, 2, 2, 0, 2, 2, 0, 1, 1, 0, 5, 5, 0, 5, 5, 0, 1, 5, 0, 5, 5, 0, 5, 5,
    2, 2, 2, 2, 2, 2, 2, 2, 2, 0, 1, 1, 0, 5, 5, 0, 5, 5, 5, 5, 1, 5, 5, 5, 0, 5, 5,
    0, 3, 1, 0, 2, 2, 0, 3, 2, 0, 1, 1, 0, 3, 3, 0, 3, 3, 0, 3, 1, 0, 3, 3, 0, 3, 3,
    0, 1, 1, 0, 2, 2, 0, 2, 2, 0, 1, 1, 0, 5, 5, 0, 5, 5, 0, 1, 1, 0, 5, 5, 0, 5, 5,
    0, 1, 1, 0, 2, 2, 0, 2, 2, 0, 1, 1, 0, 5, 5, 0, 5, 5, 0, 1, 1, 0, 5, 5, 0, 5, 5,
    3, 3, 4, 0, 2, 4, 4, 3, 2, 4, 1, 4, 0, 3, 4, 4, 3, 4, 3, 3, 1, 3, 3, 4, 0, 3, 3,
    0, 1, 4, 0, 2, 4, 0, 2, 4, 0, 1, 4, 0, 4, 4, 0, 4, 4, 0, 1, 4, 0, 4, 4, 0, 4, 4,
    0, 2, 4, 2, 2, 4, 4, 4, 2, 4, 1, 4, 0, 4, 4, 4, 4, 4, 0, 1, 1, 0, 4, 4, 0, 4, 4,
    2, 2, 2, 2, 2, 2, 2, 2, 2, 0, 1, 1, 0, 3, 3, 0, 3, 3, 3, 3, 3, 3, 3, 3, 3, 3, 3,
    0, 1, 1, 0, 2, 2, 0, 2, 2, 0, 1, 1, 0, -1, -1, 0, -1, -1, 0, 1, 1, 0, -1, -1, 0, -1, -1,
    2, 2, 2, 2, 2, 2, 2, 2, 2, 0, 1, 1, 0, -1, -1, 0, -1, -1, 0, 1, 1, 0, -1, -1, 0, -1, -1,
    0, 3, 1, 0, 2, 2, 0, 3, 2, 0, 1, 1, 0, 3, 3, 0, 3, 3, 0, 3, 1, 0, 3, 3, 0, 3, 3,
    0, 1, 1, 0, 2, 2, 0, 2, 2, 0, 1, 1, 0, -1, -1, 0, -1, -1, 0, 1, 1, 0, -1, -1, 0, -1, -1,
    0, 1, 1, 0, 2, 2, 0, 2, 2, 0, 1, 1, 0, -1, -1, 0, -1, -1, 0, 1, 1, 0, -1, -1, 0, -1, -1,
    2, 3, 1, 2, 2, 2, 0, 3, 2, 4, 1, 4, 0, 3, 4, 4, 3, 4, 0, 3, 1, 0, 3, 3, 0, 3, 3,
    0, 1, 1, 0, 2, 2, 0, 2, 2, 0, 1, 4, 0, 4, 4, 0, 4, 4, 0, 1, 1, 0, 4, 4, 0, 4, 4,
    0, 1, 1, 0, 2, 2, 0, 2, 2, 4, 1, 4, 0, 4, 4, 4, 4, 4, 0, 1, 1, 0, 4, 4, 0, 4, 4,
    2, 2, 2, 2, 2, 2, 2, 2, 2, 0, 1, 1, 0, 3, 3, 0, 3, 3, 0, 3, 1, 0, 3, 3, 0, 3, 3,
    0, 1, 2, 0, 2, 2, 0, 2, 2, 0, 1, 1, 0, -1, -1, 0, -1, -1, 0, 1, 1, 0, -1, -1, 0, -1, -1,
    2, 2, 2, 2, 2, 2, 2, 2, 2, 0, 1, 1, 0, -1, -1, 0, -1, -1, 0, 1, 1, 0, -1, -1, 0, -1, -1,
    0, 3, 1, 0, 2, 2, 0, 3, 2, 0, 1, 1, 0, 3, 3, 0, 3, 3, 0, 3, 1, 0, 3, 3, 0, 3, 3,
    0, 1, 1, 0, 2, 2, 0, 2, 2, 0, 1, 1, 0, -1, -1, 0, -1, -1, 0, 1, 1, 0, -1, -1, 0, -1, -1,
    0, 1, 1, 0, 2, 2, 0, 2, 2, 0, 1, 1, 0, -1, -1, 0, -1, -1, 0, 1, 1, 0, -1, -1, 0, -1, -1,
    0, 1, 1, 0, 2, 2, 0, 2, 2, 0, 1, 1, 0, 3, 3, 0, 3, 3, 0, 1, 1, 0, 3, 3, 0, 3, 3,
    0, 1, 1, 0, 2, 2, 0, 2, 2, 0, 1, 1, 0, 4, 4, 0, 4, 4, 0, 1, 1, 0, 4, 4, 0, 4, 4,
    0, 1, 1, 0, 2, 2, 0, 2, 2, 0, 1, 1, 0, 4, 4, 0, 4, 4, 0, 1, 1, 0, 4, 4, 0, 4, 4,
    0, 1, 1, 0, 2, 2, 0, 2, 2, 0, 1, 1, 0, 3, 3, 0, 3, 3, 0, 1, 1, 0, 3, 3, 0, 3, 3,
    5, 5, 5, 5, 2, 5, 5, 5, 5, 5, 1, 5, 0, 5, 5, 5, 5, 5, 5, 5, 5, 5, 5, 5, 5, 5, 5,
    0, 1, 1, 0, 2, 2, 0, 2, 2, 0, 1, 1, 0, 5, 5, 0, 5, 5, 0, 1, 1, 0, 5, 5, 0, 5, 5,
    0, 1, 1, 0, 2, 2, 0, 2, 2, 0, 1, 1, 0, 3, 3, 0, 3, 3, 0, 1, 1, 0, 3, 3, 0, 3, 3,
    0, 1, 1, 0, 2, 2, 0, 2, 2, 0, 1, 1, 0, 5, 5, 0, 5, 5, 0, 1, 1, 0, 5, 5, 0, 5, 5,
    0, 1, 1, 0, 2, 2, 0, 2, 2, 0, 1, 1, 0, 5, 5, 0, 5, 5, 0, 1, 1, 0, 5, 5, 0, 5, 5,
    0, 1, 1, 0, 2, 2, 0, 2, 2, 0, 1, 1, 0, 3, 3, 0, 3, 3, 0, 1, 1, 0, 3, 3, 0, 3, 3,
    4, 4, 4, 4, 2, 4, 4, 4, 4, 4, 1, 4, 0, 4, 4, 4, 4, 4, 4, 4, 4, 4, 4, 4, 4, 4, 4,
    0, 1, 1, 0, 2, 2, 0, 2, 2, 0, 1, 1, 0, 4, 4, 0, 4, 4, 0, 1, 1, 0, 4, 4, 0, 4, 4,
    3, 3, 3, 3, 2, 3, 3, 3, 3, 3, 1, 3, 0, 3, 3, 3, 3, 3, 3, 3, 3, 3, 3, 3, 3, 3, 3,
    0, 1, 1, 0, 2, 2, 0, 2, 2, 0, 1, 1, 0, -1, -1, 0, -1, -1, 0, 1, 1, 0, -1, -1, 0, -1, -1,
    0, 1, 1, 0, 2, 2, 0, 2, 2, 0, 1, 1, 0, -1, -1, 0, -1, -1, 0, 1, 1, 0, -1, -1, 0, -1, -1,
    0, 1, 1, 0, 2, 2, 0, 2, 2, 0, 1, 1, 0, 3, 3, 0, 3, 3, 0, 1, 1, 0, 3, 3, 0, 3, 3,
    0, 1, 1, 0, 2, 2, 0, 2, 2, 0, 1, 1, 0, -1, -1, 0, -1, -1, 0, 1, 1, 0, -1, -1, 0, -1, -1,
    0, 1, 1, 0, 2, 2, 0, 2, 2, 0, 1, 1, 0, -1, -1, 0, -1, -1, 0, 1, 1, 0, -1, -1, 0, -1, -1,
    0, 1, 1, 0, 2, 2, 0, 2, 2, 0, 1, 1, 0, 3, 3, 0, 3, 3, 0, 1, 1, 0, 3, 3, 0, 3, 3,
    0, 1, 1, 0, 2, 2, 0, 2, 2, 0, 1, 1, 0, 4, 4, 0, 4, 4, 0, 1, 1, 0, 4, 4, 0, 4, 4,
    0, 1, 1, 0, 2, 2, 0, 2, 2, 0, 1, 1, 0, 4, 4, 0, 4, 4, 0, 1, 1, 0, 4, 4, 0, 4, 4,
    0, 1, 1, 0, 2, 2, 0, 2, 2, 0, 1, 1, 0, 3, 3, 0, 3, 3, 0, 1, 1, 0, 3, 3, 0, 3, 3,
    0, 1, 1, 0, 2, 2, 0, 2, 2, 0, 1, 1, 0, -1, -1, 0, -1, -1, 0, 1, 1, 0, -1, -1, 0, -1, -1,
    0, 1, 1, 0, 2, 2, 0, 2, 2, 0, 1, 1, 0, -1, -1, 0, -1, -1, 0, 1, 1, 0, -1, -1, 0, -1, -1,
    0, 1, 1, 0, 2, 2, 0, 2, 2, 0, 1, 1, 0, 3, 3, 0, 3, 3, 0, 1, 1, 0, 3, 3, 0, 3, 3,
    0, 1, 1, 0, 2, 2, 0, 2, 2, 0, 1, 1, 0, -1, -1, 0, -1, -1, 0, 1, 1, 0, -1, -1, 0, -1, -1,
    0, 1, 1, 0, 2, 2, 0, 2, 2, 0, 1, 1, 0, -1, -1, 0, -1, -1, 0, 1, 1, 0, -1, -1, 0, -1, -1
>>

\* this.getOptimalMove(boardState) as handleAITurn gets it: read in the table under the
\* configuration the table was made for, searched otherwise
getOptimalMoveOf(b, cfg) ==
    IF cfg.bit = "0" /\ cfg.opponentBit = "1" /\ cfg.maxDepth = 9
    THEN OptimalMoves[BoardCode(b, <<0, 1, 2, 3, 4, 5, 6, 7, 8>>, 0) + 1]
    ELSE getOptimalMove(b, cfg)

\* the table holds what the search returns
OptimalMovesAgree ==
    ret.op = "getOptimalMove" => ret.move = getOptimalMoveOf(boardState, aiConfig)

\* what calculateBestMove can return on board b in a turn of the AI, with the draws it read
BestMoveOutcomesIn(b) ==
    LET optimalMove == getOptimalMoveOf(b, aiConfig)
    IN {[random |-> random,
         out |-> calculateBestMoveWith(b, aiConfig, stats, random, optimalMove)]
        : random \in RandomInputs}

\* what calculateBestMove can return on board b, with the draws it read
BestMoveOutcomesOn(b) ==
    LET optimalMove == getOptimalMove(b, aiConfig)
    IN {[random |-> random,
         out |-> calculateBestMoveWith(b, aiConfig, stats, random, optimalMove)]
        : random \in RandomInputs}

BestMoveOutcomes == BestMoveOutcomesOn(boardState)

CalculateBestMove ==
    /\ ret.op = "none"
    /\ \E outcome \in BestMoveOutcomes :
          /\ ret' = [op |-> "calculateBestMove",
                     random |-> SubSeq(outcome.random, 1, outcome.out.read),
                     chosenMove |-> outcome.out.chosenMove]
          /\ stats' = outcome.out.stats
    /\ calls' = OneMoreCall(boardState)
    /\ UNCHANGED <<boardState, currentPlayer, mode, boardElement, notifications, aiConfig,
                   gameState, timers>>

NextChoose == CalculateBestMove

SpecChoose == InitChoose /\ [][NextChoose]_vars

-----------------------------------------------------------------------------
(* SpecStrategic: the heuristic path getStrategicMove applied once to every *)
(* board on which a move is still to be made, for each outcome of the draw.  *)
(* calculateBestMove is handed the board of the game by handleAITurn and     *)
(* hands it on to getStrategicMove when it has 6 to 8 empty cells; the       *)
(* boards here are those of every game that is not over (checkGameEnd),      *)
(* whatever the number of marks, so that both marks can hold two cells of a  *)
(* pattern at once.                                                          *)

\* the boards on which a move is still to be made
RunningBoards == {b \in Boards : ~checkGameEnd(b).isGameOver}

InitStrategic ==
    /\ boardState \in RunningBoards
    /\ currentPlayer = "0"
    /\ mode = "strategic"
    /\ aiConfig = InitialConfig
    /\ stats = InitialStats
    /\ ret = NoCall
    /\ NoApplication

GetStrategicMove ==
    /\ ret.op = "none"
    /\ \E r \in Draws :
          \E out \in {getStrategicMove(boardState, aiConfig, stats, <<r>>)} :
             /\ ret' = [op |-> "getStrategicMove",
                        random |-> SubSeq(<<r>>, 1, out.read),
                        move |-> out.move]
             /\ stats' = out.stats
    /\ UNCHANGED <<boardState, currentPlayer, mode, boardElement, notifications, aiConfig,
                   gameState, timers, calls>>

NextStrategic == GetStrategicMove

SpecStrategic == InitStrategic /\ [][NextStrategic]_vars

-----------------------------------------------------------------------------
(* SpecCalls: the calls of SpecRules and of SpecChoose, each on its boards *)

InitCalls == InitRules \/ InitChoose

NextCalls ==
    \/ mode = "rules" /\ NextRules
    \/ mode = "choose" /\ NextChoose

SpecCalls == InitCalls /\ [][NextCalls]_vars

-----------------------------------------------------------------------------
(* SpecApp: the application.  Its events are the clicks on the mode buttons, *)
(* on the cells of the grid, on the new-game and back-to-menu buttons (of the *)
(* game controls and of the result modal), the keys 1..9, n and m, the timer  *)
(* of handleAITurn and the two timers of every notification.  The listeners   *)
(* are attached by the constructor (those of the cells by createBinaryGrid)   *)
(* and test what main.js tests, nothing else: an event may arrive whatever    *)
(* the page shows and whatever timer is pending.  The key Escape only hides   *)
(* the result modal and changes no variable.  What the handlers do to the     *)
(* page is left out, except for the cells of #game-board (a cell has the      *)
(* class 'occupied' exactly when its cell of boardState is not null) and for  *)
(* the notification elements in document.body.                                *)

\* how many timers of handleAITurn may wait at once
MaxTimers == 2

\* how many turns of the automated player are started
MaxAIMoves == 4

\* how many games are started (by a mode button, the new-game button or the key n)
MaxStarted == 2

\* how many times the session returns to the menu
MaxMenus == 1

\* how many events of the user (clicks and keys that a handler acts on) a session has
MaxEvents == 4

Modes == {"two-players", "ai-player"}

\* Array.prototype.splice(k - 1, 1): the sequence without its k-th element
Without(array, k) == SubSeq(array, 1, k - 1) \o SubSeq(array, k + 1, Len(array))

\* a variant that displays the notification whether or not one is displayed
showNotificationAtOnce(ui, message, type) ==
    LET notification == [message |-> message, type |-> type]
    IN [ui EXCEPT !.isShowingNotification = TRUE,
                  !.body = Append(@, notification),
                  !.hideTimers = Append(@, notification)]

\* showNotification(message, type), up to the return: the call is queued while a
\* notification is displayed; otherwise an element is created and appended to
\* document.body, and its 3 s timer is left pending
showNotification(ui, message, type) ==
    IF ui.isShowingNotification
    THEN [ui EXCEPT !.notificationQueue = Append(@, [message |-> message, type |-> type])]
    ELSE LET notification == [message |-> message, type |-> type]
         IN [ui EXCEPT !.isShowingNotification = TRUE,
                       !.body = Append(@, notification),
                       !.hideTimers = Append(@, notification)]

\* the callback of the k-th pending 3 s timer: the slide-out animation of its element
\* starts and the 300 ms timer is set
hideNotification(ui, k) ==
    [ui EXCEPT !.hideTimers = Without(@, k),
               !.removeTimers = Append(@, ui.hideTimers[k])]

\* the callback of the k-th pending 300 ms timer: its element leaves the document if it
\* is there, isShowingNotification is cleared and the head of the queue, if any, is shown
removeNotification(ui, k) ==
    LET notification == ui.removeTimers[k]
        place == {i \in 1 .. Len(ui.body) : ui.body[i] = notification}
        removed == [ui EXCEPT !.removeTimers = Without(@, k),
                              !.body = IF place = {} THEN @
                                       ELSE Without(@, CHOOSE i \in place :
                                                          \A j \in place : i <= j),
                              !.isShowingNotification = FALSE]
    IN IF Len(removed.notificationQueue) > 0
       THEN LET next == Head(removed.notificationQueue)
            IN showNotification([removed EXCEPT !.notificationQueue = Tail(@)],
                                next.message, next.type)
       ELSE removed

welcomeMessages ==
    <<"Sistema inicializado com sucesso!", "Bem-vindo ao mundo binário!",
      "Pronto para processar jogadas...", "Interface carregada. Selecione um modo.">>

\* showWelcomeMessage: one draw chooses the message
showWelcomeMessage(ui, random) ==
    showNotification(ui, welcomeMessages[FloorTimes(random[1], Len(welcomeMessages)) + 1],
                     "success")

\* the message of handleModeSelection
modeActivated(selected) ==
    IF selected = "two-players" THEN "Modo Duplo ativado!" ELSE "Vs Algoritmo ativado!"

\* a 3 s timer of showNotification fires
HideTimer ==
    /\ \E k \in 1 .. Len(notifications.hideTimers) :
          notifications' = hideNotification(notifications, k)
    /\ ret' = [op |-> "hideNotification"]
    /\ UNCHANGED <<boardState, currentPlayer, mode, boardElement, aiConfig, stats, gameState,
                   timers, calls>>

\* a 300 ms timer of showNotification fires
RemoveTimer ==
    /\ \E k \in 1 .. Len(notifications.removeTimers) :
          notifications' = removeNotification(notifications, k)
    /\ ret' = [op |-> "removeNotification"]
    /\ UNCHANGED <<boardState, currentPlayer, mode, boardElement, aiConfig, stats, gameState,
                   timers, calls>>

\* the handler ends with showNotification(message, type)
Notify(message, type) == notifications' = showNotification(notifications, message, type)

\* the state the constructor of BinaryTicTacToe leaves: initializeApplication ends with
\* showWelcomeMessage
InitApp ==
    /\ boardState = EmptyBoard
    /\ boardElement = NoCells
    /\ currentPlayer = "1"
    /\ mode = "app"
    /\ aiConfig = InitialConfig
    /\ stats = InitialStats
    /\ ret = NoCall
    /\ gameState = InitialGameState
    /\ timers = NoTimers
    /\ calls = NoCalls
    /\ \E r \in Draws : notifications = showWelcomeMessage(NoNotifications, <<r>>)

\* a variant in which a victory is also a point for the bit that lost
updateSessionStatsBothScore(sessionStats, gameResult) ==
    LET won == IF gameResult.winner = "draw"
               THEN [sessionStats EXCEPT !["draws"] = @ + 1]
               ELSE IF gameResult.winner # null
               THEN [sessionStats EXCEPT !["1"] = @ + 1, !["0"] = @ + 1]
               ELSE sessionStats
    IN [won EXCEPT !["totalGames"] = @ + 1]

\* updateSessionStats: the sessionStats it leaves
updateSessionStats(sessionStats, gameResult) ==
    LET won == IF gameResult.winner = "draw"
               THEN [sessionStats EXCEPT !["draws"] = @ + 1]
               ELSE IF gameResult.winner # null
               THEN [sessionStats EXCEPT ![gameResult.winner] = @ + 1]
               ELSE sessionStats
    IN [won EXCEPT !["totalGames"] = @ + 1]

\* handleGameEnd: the gameState it leaves (undefined++ is NaN, and so is NaN++)
handleGameEnd(state, gameResult) ==
    [state EXCEPT !.isGameActive = FALSE,
                  !.totalGames = "NaN",
                  !.sessionStats = updateSessionStats(@, gameResult)]

handleModeSelection(selected) ==
    /\ calls.started < MaxStarted
    /\ calls' = [calls EXCEPT !.started = @ + 1, !.events = @ + 1]
    /\ gameState' = [gameState EXCEPT !.currentMode = selected, !.isGameActive = TRUE]
    /\ currentPlayer' = "1"
    /\ boardElement' = createBinaryGrid
    /\ boardState' = EmptyBoard
    /\ Notify(modeActivated(selected), "success")
    /\ ret' = [op |-> "handleModeSelection"]
    /\ UNCHANGED <<mode, aiConfig, stats, timers>>

\* a variant that accepts a click while the AI turn is pending
handleCellClickWhileProcessing(cellIndex) ==
    /\ gameState.isGameActive
    /\ boardState[cellIndex] = null
    /\ \E move \in {makeMove(boardState, boardElement, cellIndex, currentPlayer)} :
          \E gameResult \in {checkGameEnd(move.boardState)} :
             /\ boardState' = move.boardState
             /\ IF gameResult.isGameOver
                THEN /\ gameState' = handleGameEnd(gameState, gameResult)
                     /\ UNCHANGED <<currentPlayer, timers>>
                ELSE /\ currentPlayer' = otherPlayer(currentPlayer)
                     /\ IF gameState.currentMode = "ai-player" /\ currentPlayer' = "0"
                        THEN /\ timers.aiTurn < MaxTimers
                             /\ calls.made + timers.aiTurn < MaxAIMoves
                             /\ gameState' = [gameState EXCEPT !.isAIProcessing = TRUE]
                             /\ timers' = [timers EXCEPT !.aiTurn = @ + 1]
                        ELSE UNCHANGED <<gameState, timers>>
    /\ calls' = [calls EXCEPT !.events = @ + 1]
    /\ ret' = [op |-> "handleCellClick"]
    /\ UNCHANGED <<mode, boardElement, notifications, aiConfig, stats>>

\* handleCellClick on the cell cellIndex, up to the await of handleAITurn
handleCellClick(cellIndex) ==
    /\ gameState.isGameActive
    /\ boardState[cellIndex] = null
    /\ ~gameState.isAIProcessing
    /\ \E move \in {makeMove(boardState, boardElement, cellIndex, currentPlayer)} :
          \E gameResult \in {checkGameEnd(move.boardState)} :
             /\ boardState' = move.boardState
             /\ IF gameResult.isGameOver
                THEN /\ gameState' = handleGameEnd(gameState, gameResult)
                     /\ UNCHANGED <<currentPlayer, timers>>
                ELSE /\ currentPlayer' = otherPlayer(currentPlayer)
                     /\ IF gameState.currentMode = "ai-player" /\ currentPlayer' = "0"
                        THEN /\ timers.aiTurn < MaxTimers
                             /\ calls.made + timers.aiTurn < MaxAIMoves
                             /\ gameState' = [gameState EXCEPT !.isAIProcessing = TRUE]
                             /\ timers' = [timers EXCEPT !.aiTurn = @ + 1]
                        ELSE UNCHANGED <<gameState, timers>>
    /\ calls' = [calls EXCEPT !.events = @ + 1]
    /\ ret' = [op |-> "handleCellClick"]
    /\ UNCHANGED <<mode, boardElement, notifications, aiConfig, stats>>

\* a variant that clears the scoreboard
handleNewGameClearing ==
    /\ calls.started < MaxStarted
    /\ calls' = [calls EXCEPT !.started = @ + 1, !.events = @ + 1]
    /\ boardState' = EmptyBoard
    /\ gameState' = [gameState EXCEPT !.isGameActive = TRUE, !.isAIProcessing = FALSE,
                                      !.sessionStats = NoGames]
    /\ currentPlayer' = "1"
    /\ Notify("Sistema reinicializado!", "info")
    /\ ret' = [op |-> "handleNewGame"]
    /\ UNCHANGED <<mode, boardElement, aiConfig, stats, timers>>

handleNewGame ==
    /\ calls.started < MaxStarted
    /\ calls' = [calls EXCEPT !.started = @ + 1, !.events = @ + 1]
    /\ boardState' = EmptyBoard
    /\ gameState' = [gameState EXCEPT !.isGameActive = TRUE, !.isAIProcessing = FALSE]
    /\ currentPlayer' = "1"
    /\ Notify("Sistema reinicializado!", "info")
    /\ ret' = [op |-> "handleNewGame"]
    /\ UNCHANGED <<mode, boardElement, aiConfig, stats, timers>>

handleBackToMenu ==
    /\ calls.menus < MaxMenus
    /\ calls' = [calls EXCEPT !.menus = @ + 1, !.events = @ + 1]
    /\ boardState' = EmptyBoard
    /\ gameState' = InitialGameState
    /\ currentPlayer' = "1"
    /\ Notify("Voltando ao menu...", "info")
    /\ ret' = [op |-> "handleBackToMenu"]
    /\ UNCHANGED <<mode, boardElement, aiConfig, stats, timers>>

\* a click on #two-players-btn or #ai-player-btn
ClickMode == \E selected \in Modes : handleModeSelection(selected)

\* a click on a cell of the grid: the listener is on the buttons createBinaryGrid made
ClickCell == \E cellIndex \in boardElement : handleCellClick(cellIndex)

\* a click on #new-game-btn or #play-again-btn
ClickNewGame == handleNewGame

\* a click on #change-mode-btn or #back-to-menu-btn
ClickBackToMenu == handleBackToMenu

\* the keydown listener: 1..9 write on the cell if it is there and not occupied, n
\* starts a new game, m goes to the menu
KeyDown ==
    \/ /\ gameState.isGameActive /\ ~gameState.isAIProcessing
       /\ \E key \in 1 .. 9 :
             /\ getCell(boardElement, key - 1) # {}
             /\ boardState[key - 1] = null
             /\ handleCellClick(key - 1)
    \/ gameState.isGameActive /\ handleNewGame
    \/ gameState.isGameActive /\ handleBackToMenu

\* handleAITurn from the end of its await on
AITimer ==
    /\ timers.aiTurn > 0
    /\ timers' = [timers EXCEPT !.aiTurn = @ - 1]
    /\ \E outcome \in BestMoveOutcomesIn(boardState) :
          \E move \in {makeMove(boardState, boardElement, outcome.out.chosenMove, "0")} :
             \E gameResult \in {checkGameEnd(move.boardState)} :
                /\ stats' = outcome.out.stats
                /\ boardState' = move.boardState
                /\ ret' = [op |-> "handleAITurn", aiMove |-> outcome.out.chosenMove]
                /\ IF outcome.out.chosenMove = -1
                   THEN /\ gameState' = [gameState EXCEPT !.isAIProcessing = FALSE]
                        /\ UNCHANGED currentPlayer
                   ELSE IF move.threw
                   THEN UNCHANGED <<gameState, currentPlayer>>
                   ELSE IF gameResult.isGameOver
                   THEN /\ gameState' = [handleGameEnd(gameState, gameResult)
                                            EXCEPT !.isAIProcessing = FALSE]
                        /\ UNCHANGED currentPlayer
                   ELSE /\ gameState' = [gameState EXCEPT !.isAIProcessing = FALSE]
                        /\ currentPlayer' = otherPlayer(currentPlayer)
    /\ calls' = OneMoreCall(boardState)
    /\ UNCHANGED <<mode, boardElement, notifications, aiConfig>>

\* the session is not at its last event of the user
UserEvent == calls.events < MaxEvents

\* a session: at most MaxEvents events of the user, in any order and at any time, and
\* the timers
NextApp ==
    \/ UserEvent /\ ClickMode
    \/ UserEvent /\ ClickCell
    \/ UserEvent /\ ClickNewGame
    \/ UserEvent /\ ClickBackToMenu
    \/ UserEvent /\ KeyDown
    \/ AITimer
    \/ HideTimer
    \/ RemoveTimer

SpecApp == InitApp /\ [][NextApp]_vars

\* the end of the await in handleAITurn, seen on the timers alone: a pending timer fires.
\* Within SpecApp the steps that lower timers.aiTurn are exactly the AITimer steps, and
\* AITimer is enabled exactly when a timer is pending (calculateBestMove always returns)
TimerFires ==
    /\ timers.aiTurn > 0
    /\ timers' = [timers EXCEPT !.aiTurn = @ - 1]

\* the application with a timer of handleAITurn that always fires: setTimeout runs its
\* callback after 1200 ms whatever the user does meanwhile, and nothing in the program
\* clears it
SpecAppFair == InitApp /\ [][NextApp]_vars /\ WF_timers(TimerFires)

-----------------------------------------------------------------------------
(* SpecGames: the application from a game just started.  A mode button was  *)
(* clicked on the page the constructor left (handleModeSelection, in either *)
(* mode) and the timers of the welcome and of the mode notification have    *)
(* fired; no cell was clicked yet.  From there on the events are those of   *)
(* SpecApp, with the same listeners and handlers: clicks and keys in any    *)
(* order and at any time, the timer of handleAITurn and the timers of the   *)
(* notifications the handlers show.                                         *)

\* how many events of the user a session has after the first game was started
MaxGameEvents == 5

InitGames ==
    /\ boardState = EmptyBoard
    /\ boardElement = createBinaryGrid
    /\ currentPlayer = "1"
    /\ mode = "games"
    /\ aiConfig = InitialConfig
    /\ stats = InitialStats
    /\ ret = NoCall
    /\ \E selected \in Modes :
          gameState = [InitialGameState EXCEPT !.currentMode = selected, !.isGameActive = TRUE]
    /\ timers = NoTimers
    /\ calls = [NoCalls EXCEPT !.started = 1]
    /\ notifications = NoNotifications

\* the session is not at its last event of the user
GameEvent == calls.events < MaxGameEvents

NextGames ==
    \/ GameEvent /\ ClickMode
    \/ GameEvent /\ ClickCell
    \/ GameEvent /\ ClickNewGame
    \/ GameEvent /\ ClickBackToMenu
    \/ GameEvent /\ KeyDown
    \/ AITimer
    \/ HideTimer
    \/ RemoveTimer

SpecGames == InitGames /\ [][NextGames]_vars

-----------------------------------------------------------------------------
(* SpecPlay: games from the empty board.  In mode "free" the application is *)
(* in two-players mode, the notifications of the start gone (their timers   *)
(* have fired): every move is a click or a key press                        *)
(* (handleCellClick), and while '0' is to move getOptimalMove may be asked   *)
(* for its move on the board of the game.  In mode "selfplay" the objects    *)
(* are driven without the application: every move of both marks is the       *)
(* getOptimalMove move of the mover, written with makeMove.                  *)

\* gameState as handleModeSelection(selected) leaves it after the constructor
StartedIn(selected) ==
    [InitialGameState EXCEPT !.currentMode = selected, !.isGameActive = TRUE]

InitPlay ==
    /\ boardState = EmptyBoard
    /\ boardElement = createBinaryGrid
    /\ \/ mode = "free" /\ currentPlayer = "1" /\ gameState = StartedIn("two-players")
       \/ mode = "selfplay" /\ currentPlayer \in Bits /\ gameState = InitialGameState
    /\ aiConfig = InitialConfig
    /\ stats = InitialStats
    /\ ret = NoCall
    /\ timers = NoTimers
    /\ calls = NoCalls
    /\ notifications = NoNotifications

\* a variant in which the clicks are accepted after the game is over
PlayOn ==
    /\ mode = "free"
    /\ \E cellIndex \in Positions :
          /\ boardState[cellIndex] = null
          /\ \E move \in {makeMove(boardState, boardElement, cellIndex, currentPlayer)} :
                \E gameResult \in {checkGameEnd(move.boardState)} :
                   /\ boardState' = move.boardState
                   /\ IF gameResult.isGameOver
                      THEN /\ gameState' = handleGameEnd(gameState, gameResult)
                           /\ UNCHANGED currentPlayer
                      ELSE /\ currentPlayer' = otherPlayer(currentPlayer)
                           /\ UNCHANGED gameState
    /\ calls' = [calls EXCEPT !.events = @ + 1]
    /\ ret' = [op |-> "handleCellClick"]
    /\ UNCHANGED <<mode, boardElement, notifications, aiConfig, stats, timers>>

\* a move by hand in two-players mode: a click on a cell
Play == mode = "free" /\ ClickCell

\* getOptimalMove is asked for the move of '0' on the board of the game, once per board;
\* it writes nothing
AskOptimalMove ==
    /\ mode = "free"
    /\ gameState.isGameActive
    /\ currentPlayer = "0"
    /\ ret.op # "getOptimalMove"
    /\ \E position \in {getOptimalMove(boardState, ConfigFor("0"))} :
          ret' = [op |-> "getOptimalMove", board |-> boardState,
                  bit |-> "0", move |-> position]
    /\ UNCHANGED <<boardState, currentPlayer, mode, boardElement, notifications, aiConfig,
                   stats, gameState,
                   timers, calls>>

\* the mover takes getOptimalMove with itself as the maximising mark; the move is written
\* with makeMove and the other mark moves next unless checkGameEnd finds the game over
OptimalMove ==
    /\ mode = "selfplay"
    /\ ~checkGameEnd(boardState).isGameOver
    /\ \E position \in {getOptimalMove(boardState, ConfigFor(currentPlayer))} :
          \E move \in {makeMove(boardState, boardElement, position, currentPlayer)} :
             /\ boardState' = move.boardState
             /\ currentPlayer' = IF checkGameEnd(move.boardState).isGameOver
                                 THEN currentPlayer ELSE otherPlayer(currentPlayer)
             /\ ret' = [op |-> "getOptimalMove", board |-> boardState,
                        bit |-> currentPlayer, move |-> position]
    /\ UNCHANGED <<mode, boardElement, notifications, aiConfig, stats, gameState, timers, calls>>

NextPlay == Play \/ AskOptimalMove \/ OptimalMove

SpecPlay == InitPlay /\ [][NextPlay]_vars

-----------------------------------------------------------------------------
(* SpecVersus: games of the application in ai-player mode, from the empty   *)
(* board, the notifications of the start gone, at a difficulty chosen for   *)
(* the whole game: '1' clicks any empty                                     *)
(* cell, and the timer of handleAITurn fires before anything else happens.   *)

\* the difficulties of the games, in hundredths
VersusDifficulties == {0, InitialConfig.difficulty, 100}

InitVersus ==
    /\ boardState = EmptyBoard
    /\ boardElement = createBinaryGrid
    /\ currentPlayer = "1"
    /\ mode = "versus"
    /\ \E difficulty \in VersusDifficulties :
          aiConfig = [InitialConfig EXCEPT !.difficulty = difficulty]
    /\ stats = InitialStats
    /\ ret = NoCall
    /\ gameState = StartedIn("ai-player")
    /\ timers = NoTimers
    /\ calls = NoCalls
    /\ notifications = NoNotifications

\* a move of '1' by hand: a click on a cell, which starts the turn of '0'
HumanMove == ClickCell

\* the answer of '0': the timer fires and handleAITurn goes on
AIMove == AITimer

NextVersus == HumanMove \/ AIMove

SpecVersus == InitVersus /\ [][NextVersus]_vars

-----------------------------------------------------------------------------
(* SpecBoard: the game board on its own, as its constructor leaves it: the  *)
(* board empty and no cell in #game-board.  initialize, makeMove (with any  *)
(* index from -PositionMargin to 8+PositionMargin and any mark) and reset   *)
(* are called in any order.                                                  *)

InitBoard ==
    /\ boardState = EmptyBoard
    /\ currentPlayer = "1"
    /\ mode = "board"
    /\ aiConfig = InitialConfig
    /\ stats = InitialStats
    /\ ret = NoCall
    /\ NoApplication

\* BinaryGameBoard.initialize: createBinaryGrid, then reset
Initialize ==
    /\ boardElement' = createBinaryGrid
    /\ boardState' = EmptyBoard
    /\ ret' = [op |-> "initialize"]
    /\ UNCHANGED <<currentPlayer, mode, notifications, aiConfig, stats, gameState, timers,
                   calls>>

MakeMove ==
    /\ \E cellIndex \in PositionInputs, player \in Bits :
          \E move \in {makeMove(boardState, boardElement, cellIndex, player)} :
             /\ boardState' = move.boardState
             /\ ret' = [op |-> "makeMove", cellIndex |-> cellIndex, player |-> player,
                        ok |-> move.ok, threw |-> move.threw]
    /\ UNCHANGED <<currentPlayer, mode, boardElement, notifications, aiConfig, stats,
                   gameState, timers, calls>>

\* BinaryGameBoard.reset
Reset ==
    /\ boardState' = EmptyBoard
    /\ ret' = [op |-> "reset"]
    /\ UNCHANGED <<currentPlayer, mode, boardElement, notifications, aiConfig, stats,
                   gameState, timers, calls>>

NextBoard == Initialize \/ MakeMove \/ Reset

SpecBoard == InitBoard /\ [][NextBoard]_vars

-----------------------------------------------------------------------------
(* SpecConfig: adjustDifficulty and setPersonality called in any order, on a *)
(* player whose counters are those of a new player or of one that has moved. *)

\* how far outside 0..100 (hundredths) the difficulties handed to adjustDifficulty go
DifficultyMargin == 70

DifficultyArguments == (0 - DifficultyMargin) .. (100 + DifficultyMargin)

PersonalityInputs ==
    {"aggressive", "balanced", "friendly", "beginner", "expert", "", "constructor", "toString"}

\* the counters after an opening move, a mid-game move and an end-game move
StatsInputs ==
    {InitialStats,
     [totalMoves |-> 3, optimalMoves |-> 1, strategicMoves |-> 1, randomMoves |-> 0]}

InitConfig ==
    /\ boardState = EmptyBoard
    /\ currentPlayer = "1"
    /\ mode = "config"
    /\ aiConfig = InitialConfig
    /\ stats \in StatsInputs
    /\ ret = NoCall
    /\ NoApplication

AdjustDifficulty ==
    /\ \E newDifficulty \in DifficultyArguments :
          /\ aiConfig' = adjustDifficulty(aiConfig, newDifficulty)
          /\ ret' = [op |-> "adjustDifficulty", newDifficulty |-> newDifficulty]
    /\ UNCHANGED <<boardState, currentPlayer, mode, boardElement, notifications, stats,
                   gameState, timers, calls>>

SetPersonality ==
    /\ \E personality \in PersonalityInputs :
          /\ aiConfig' = setPersonality(aiConfig, personality)
          /\ ret' = [op |-> "setPersonality", personality |-> personality]
    /\ UNCHANGED <<boardState, currentPlayer, mode, boardElement, notifications, stats,
                   gameState, timers, calls>>

NextConfig == AdjustDifficulty \/ SetPersonality

SpecConfig == InitConfig /\ [][NextConfig]_vars

-----------------------------------------------------------------------------
(* SpecSession: one player called again and again: calculateBestMove on      *)
(* boards of every phase of a game, and resetStats, in any order.            *)

\* how many calls of calculateBestMove are made between two resetStats
MaxCalls == 3

\* a full board without a complete pattern, row by row
FilledBoard == <<"1", "0", "1", "1", "0", "0", "0", "1", "1">>

\* the first `filled` cells of FilledBoard, the other cells empty
PartlyFilled(filled) ==
    [i \in Positions |-> IF i < filled THEN FilledBoard[i + 1] ELSE null]

\* boards with 9, 6, 4 and 0 empty cells
SessionBoards == {PartlyFilled(filled) : filled \in {0, 3, 5, 9}}

\* the configuration of the constructor and that of setPersonality('beginner')
SessionConfigs == {InitialConfig, setPersonality(InitialConfig, "beginner")}

InitSession ==
    /\ boardState = EmptyBoard
    /\ currentPlayer = "0"
    /\ mode = "session"
    /\ aiConfig \in SessionConfigs
    /\ stats = InitialStats
    /\ ret = NoCall
    /\ NoApplication

SessionCall ==
    /\ calls.made < MaxCalls
    /\ \E b \in SessionBoards :
          \E outcome \in BestMoveOutcomesOn(b) :
             /\ boardState' = b
             /\ ret' = [op |-> "calculateBestMove",
                        random |-> SubSeq(outcome.random, 1, outcome.out.read),
                        chosenMove |-> outcome.out.chosenMove]
             /\ stats' = outcome.out.stats
             /\ calls' = OneMoreCall(b)
    /\ UNCHANGED <<currentPlayer, mode, boardElement, notifications, aiConfig, gameState, timers>>

ResetStats ==
    /\ calls.made > 0
    /\ stats' = resetStats
    /\ calls' = NoCalls
    /\ ret' = [op |-> "resetStats"]
    /\ UNCHANGED <<boardState, currentPlayer, mode, boardElement, notifications, aiConfig,
                   gameState, timers>>

NextSession == SessionCall \/ ResetStats

SpecSession == InitSession /\ [][NextSession]_vars

-----------------------------------------------------------------------------
(* SpecNotify: the notifications of BinaryUIController.  showNotification is  *)
(* called from outside up to MaxNotifications times, at any moment, and the   *)
(* two timers of every notification displayed fire.                            *)

\* how many notifications, displayed or waiting, a session of SpecNotify holds at once
MaxNotifications == 3

\* the calls of showNotification the application makes
NotificationInputs ==
    {[message |-> welcomeMessages[k], type |-> "success"] : k \in 1 .. Len(welcomeMessages)}
    \cup {[message |-> modeActivated(selected), type |-> "success"] : selected \in Modes}
    \cup {[message |-> "Sistema reinicializado!", type |-> "info"],
          [message |-> "Voltando ao menu...", type |-> "info"]}

InitNotify ==
    /\ boardState = EmptyBoard
    /\ currentPlayer = "1"
    /\ mode = "notify"
    /\ aiConfig = InitialConfig
    /\ stats = InitialStats
    /\ ret = NoCall
    /\ NoApplication

ShowNotification ==
    /\ Len(notifications.notificationQueue) + Len(notifications.body) < MaxNotifications
    /\ \E input \in NotificationInputs :
          /\ notifications' = showNotification(notifications, input.message, input.type)
          /\ ret' = [op |-> "showNotification", message |-> input.message,
                     type |-> input.type]
    /\ UNCHANGED <<boardState, currentPlayer, mode, boardElement, aiConfig, stats, gameState,
                   timers, calls>>

NextNotify == ShowNotification \/ HideTimer \/ RemoveTimer

\* a timer that was set fires: nothing in the program clears a timer of showNotification
SpecNotify == InitNotify /\ [][NextNotify]_vars /\ WF_vars(HideTimer) /\ WF_vars(RemoveTimer)

-----------------------------------------------------------------------------
(* Properties of the rules engine (SpecRules) *)

\* the first complete pattern of the table, on a board that has one
FirstComplete(b) == CHOOSE k \in CompletePatterns(b) : \A j \in CompletePatterns(b) : k <= j

\* the mark of the first complete pattern, null when no pattern is complete
Verdict(b) ==
    IF CompletePatterns(b) = {} THEN null ELSE b[winningPatterns[FirstComplete(b)][1]]

\* C3: on every board of nine cells checkGameEnd reports a victory exactly when some
\* pattern holds three equal marks, a full board or not, naming the mark and the cells
\* of such a pattern (the first of the table when several are complete); it reports a
\* draw exactly when no pattern is complete and no cell is empty; otherwise it reports
\* the game as still running, with no winner.
VerdictMatchesBoard ==
    ret.op = "checkGameEnd" =>
        LET r == ret.result
            won == CompletePatterns(boardState)
        IN IF won # {}
           THEN /\ r.isGameOver
                /\ r.type = "victory"
                /\ \E k \in won :
                      /\ r.winner = boardState[winningPatterns[k][1]]
                      /\ r.winningCombination = winningPatterns[k]
                      /\ \A j \in won : k <= j
           ELSE IF EmptyCount(boardState) = 0
           THEN r.isGameOver /\ r.type = "overflow" /\ r.winner = "draw"
           ELSE ~r.isGameOver /\ r.type = "running" /\ r.winner = null

\* a full board with a complete pattern was judged a victory
FullBoardVictory ==
    /\ ret.op = "checkGameEnd"
    /\ EmptyCount(boardState) = 0
    /\ CompletePatterns(boardState) # {}
    /\ ret.result.type = "victory"

\* C4: simulateWrite leaves the board it was given as it was; on a position outside 0..8
\* or on an occupied cell it returns null; and what it returns is never a board in which
\* a cell that was occupied holds another mark.
IllegalWriteRejected ==
    [][ret'.op = "simulateWrite" =>
          /\ boardState' = boardState
          /\ (ret'.position \notin Positions \/ boardState[ret'.position] # null)
                => ret'.result = nullArray
          /\ \/ ret'.result = nullArray
             \/ \A i \in Positions : boardState[i] # null => ret'.result[i] = boardState[i]
      ]_vars

\* a write of the other mark on an occupied cell returned null
OccupiedWriteRejected ==
    /\ ret.op = "simulateWrite"
    /\ ret.position \in Positions
    /\ boardState[ret.position] \in Bits
    /\ boardState[ret.position] # ret.bit
    /\ ret.result = nullArray

\* C15: on every board getAvailablePositions returns the indices of the empty cells,
\* each once, in ascending order.
AvailableAscending ==
    ret.op = "getAvailablePositions" =>
        LET r == ret.result
        IN /\ \A k \in 1 .. (Len(r) - 1) : r[k] < r[k + 1]
           /\ {r[k] : k \in 1 .. Len(r)} = {i \in Positions : boardState[i] = null}

\* the empty cells were the diagonal 0, 4, 8
DiagonalAvailable ==
    /\ ret.op = "getAvailablePositions"
    /\ ret.result = <<0, 4, 8>>

\* C16: evaluateState(board, mark) is 1 exactly when checkGameEnd names mark the winner,
\* -1 exactly when it names the other mark, and 0 on a draw or an unfinished board.
ScoreMatchesVerdict ==
    ret.op = "evaluateState" =>
        LET winner == checkGameEnd(boardState).winner
        IN /\ ret.result \in {-1, 0, 1}
           /\ ret.result = 1 <=> winner = ret.bit
           /\ ret.result = -1 <=> winner = otherPlayer(ret.bit)
           /\ ret.result = 0 <=> winner \in {"draw", null}

\* a full board without a complete pattern scored 0
DrawScoresZero ==
    /\ ret.op = "evaluateState"
    /\ EmptyCount(boardState) = 0
    /\ CompletePatterns(boardState) = {}
    /\ ret.result = 0

-----------------------------------------------------------------------------
(* Properties of the minimax move (SpecPlay) *)

\* C1: when both marks are moved by getOptimalMove from the empty board (maxDepth 9),
\* whichever mark starts, no board of the game has a complete pattern, so a finished
\* game is a draw.
SelfPlayDraws ==
    mode = "selfplay" =>
        /\ CompletePatterns(boardState) = {}
        /\ checkGameEnd(boardState).isGameOver => checkGameEnd(boardState).winner = "draw"

\* a self-play game was played to its end
SelfPlayFinished ==
    /\ mode = "selfplay"
    /\ ret.op = "getOptimalMove"
    /\ checkGameEnd(boardState).isGameOver
    /\ EmptyCount(boardState) = 0

\* on board b nobody has won and '1' can complete a pattern with one move
Exposed(b) == CompletePatterns(b) = {} /\ HoldsTwo(b, "1")

\* C2: on a board reached by alternating play, with '0' to move and no pattern complete,
\* on which some legal move of '0' leaves '1' without an immediately winning reply,
\* getOptimalMove returns such a move.
NoAvoidableLoss ==
    (/\ ret.op = "getOptimalMove"
     /\ mode = "free"
     /\ ret.bit = "0"
     /\ \E p \in Positions :
           ret.board[p] = null /\ ~Exposed([ret.board EXCEPT ![p] = "0"]))
    => /\ ret.move \in Positions
       /\ ret.board[ret.move] = null
       /\ ~Exposed([ret.board EXCEPT ![ret.move] = "0"])

\* '1' threatened, some move of '0' would have left the threat open, another not
ThreatAnswered ==
    /\ ret.op = "getOptimalMove"
    /\ mode = "free"
    /\ ret.bit = "0"
    /\ HoldsTwo(ret.board, "1")
    /\ ~HoldsTwo(ret.board, "0")
    /\ \E p \in Positions :
          ret.board[p] = null /\ Exposed([ret.board EXCEPT ![p] = "0"])
    /\ \E p \in Positions :
          ret.board[p] = null /\ ~Exposed([ret.board EXCEPT ![p] = "0"])
    /\ ~Exposed([ret.board EXCEPT ![ret.move] = "0"])

\* C17: getOptimalMove returns an empty position whose minimax score is the greatest
\* score of an empty position, and the lowest such position.
FirstBestMove ==
    ret.op = "getOptimalMove" =>
        LET cfg == ConfigFor(ret.bit)
            empty == {p \in Positions : ret.board[p] = null}
            score == [p \in empty |->
                         minimax([ret.board EXCEPT ![p] = ret.bit], 0, FALSE,
                                 -Infinity, Infinity, cfg)]
        IN /\ ret.move \in empty
           /\ LET best == score[ret.move]
              IN \A p \in empty :
                    LET other == score[p]
                    IN other <= best /\ (p < ret.move => other < best)

\* the move was not the last empty cell, and a later empty cell scores as much
TieToTheFirst ==
    /\ ret.op = "getOptimalMove"
    /\ mode = "free"
    /\ EmptyCount(ret.board) <= 4
    /\ \E p \in Positions :
          /\ p > ret.move
          /\ ret.board[p] = null
          /\ minimax([ret.board EXCEPT ![p] = "0"], 0, FALSE, -Infinity, Infinity,
                     ConfigFor("0"))
             = minimax([ret.board EXCEPT ![ret.move] = "0"], 0, FALSE, -Infinity, Infinity,
                       ConfigFor("0"))

-----------------------------------------------------------------------------
(* Properties of calculateBestMove (SpecChoose) *)

\* C5: on a board without an empty cell calculateBestMove returns -1 and changes neither
\* aiConfig nor any counter of stats.
FullBoardNoMove ==
    [][(ret'.op = "calculateBestMove" /\ EmptyCount(boardState) = 0) =>
          /\ ret'.chosenMove = -1
          /\ stats' = stats
          /\ aiConfig' = aiConfig
      ]_vars

\* calculateBestMove was called on a full board
FullBoardAsked ==
    /\ ret.op = "calculateBestMove"
    /\ EmptyCount(boardState) = 0
    /\ ret.chosenMove = -1
    /\ stats = InitialStats

\* C6: on the empty board calculateBestMove returns the centre or a corner, never an
\* edge, and for the same draws it returns the same cell under every difficulty.
OpeningCentreOrCorner ==
    (ret.op = "calculateBestMove" /\ EmptyCount(boardState) = 9) =>
        /\ ret.chosenMove \in {4, 0, 2, 6, 8}
        /\ \A d \in DifficultyInputs :
              calculateBestMove(boardState, [aiConfig EXCEPT !.difficulty = d],
                                InitialStats, ret.random).chosenMove = ret.chosenMove

\* the opening took a corner under difficulty 0
OpeningCorner ==
    /\ ret.op = "calculateBestMove"
    /\ EmptyCount(boardState) = 9
    /\ aiConfig.difficulty = 0
    /\ ret.chosenMove \in {0, 2, 6, 8}
    /\ Len(ret.random) = 2

\* C7: with one to five empty cells calculateBestMove returns what getOptimalMove
\* returns, under every difficulty and every draw.
EndgameIsOptimal ==
    (ret.op = "calculateBestMove" /\ EmptyCount(boardState) \in 1 .. 5) =>
        /\ ret.chosenMove = getOptimalMove(boardState, aiConfig)
        /\ ret.random = << >>

\* five cells empty, difficulty 0, and the move is not the one the heuristic path gives
EndgameNotHeuristic ==
    /\ ret.op = "calculateBestMove"
    /\ EmptyCount(boardState) = 5
    /\ aiConfig.difficulty = 0
    /\ CompletePatterns(boardState) = {}
    /\ \A r \in Draws :
          ret.chosenMove # getStrategicMove(boardState, aiConfig, InitialStats, <<r>>).move

\* C8: with six to eight empty cells calculateBestMove returns the getOptimalMove move
\* when the draw is below the difficulty and the getStrategicMove move otherwise: always
\* the former under difficulty 1, never under difficulty 0.  (The heuristic path reads
\* the draws after the first; one the call did not make stands as 0.)
MidgameMixes ==
    (ret.op = "calculateBestMove" /\ EmptyCount(boardState) \in 6 .. 8) =>
        LET below == ret.random[1] < aiConfig.difficulty
        IN /\ aiConfig.difficulty = 100 => below
           /\ aiConfig.difficulty = 0 => ~below
           /\ IF below
              THEN /\ ret.chosenMove = getOptimalMove(boardState, aiConfig)
                   /\ Len(ret.random) = 1
              ELSE ret.chosenMove =
                      getStrategicMove(boardState, aiConfig, InitialStats,
                                       Tail(ret.random) \o <<0>>).move

\* the draw reached the difficulty and the heuristic move differs from the minimax move
MidgameHeuristic ==
    /\ ret.op = "calculateBestMove"
    /\ EmptyCount(boardState) \in 6 .. 8
    /\ aiConfig.difficulty = 50
    /\ ret.random[1] >= aiConfig.difficulty
    /\ ret.chosenMove # getOptimalMove(boardState, aiConfig)

-----------------------------------------------------------------------------
(* Properties of getStrategicMove (SpecStrategic) *)

\* C9: on every board (of a game that is not over, the boards of SpecStrategic) where
\* '0' holds two cells of a pattern whose third cell is empty, getStrategicMove returns
\* an empty cell that completes a pattern for '0', also when '1' can complete a pattern
\* of its own.
WinTakenFirst ==
    (/\ ret.op = "getStrategicMove"
     /\ HoldsTwo(boardState, "0"))
    => /\ ret.move \in Positions
       /\ Completes(boardState, ret.move, "0")
       /\ Verdict([boardState EXCEPT ![ret.move] = "0"]) = "0"

\* both marks could complete a pattern, the cell of '1' coming first, and '0' took its own
WinBeforeBlock ==
    /\ ret.op = "getStrategicMove"
    /\ CompletePatterns(boardState) = {}
    /\ HoldsTwo(boardState, "0")
    /\ \E p \in Positions : p < ret.move /\ Completes(boardState, p, "1")
    /\ Completes(boardState, ret.move, "0")

\* the board with '1' on cells 0 and 1 and nothing else
TopRowThreat == [i \in Positions |-> IF i \in {0, 1} THEN "1" ELSE null]

\* C10: when no write of '0' on an empty cell makes '0' the winner and '1' holds two
\* cells of a pattern whose third cell is empty, getStrategicMove returns an empty cell
\* on which a write of '1' makes '1' the winner; with '1' on cells 0 and 1 only it is 2.
ThreatBlocked ==
    (/\ ret.op = "getStrategicMove"
     /\ \A p \in Positions :
           boardState[p] = null => Verdict([boardState EXCEPT ![p] = "0"]) # "0"
     /\ HoldsTwo(boardState, "1"))
    => /\ ret.move \in Positions
       /\ boardState[ret.move] = null
       /\ Verdict([boardState EXCEPT ![ret.move] = "1"]) = "1"
       /\ boardState = TopRowThreat => ret.move = 2

\* the centre was free, no pattern complete, and the move went to the cell of the threat
BlockBeforeCentre ==
    /\ ret.op = "getStrategicMove"
    /\ CompletePatterns(boardState) = {}
    /\ ~HoldsTwo(boardState, "0")
    /\ HoldsTwo(boardState, "1")
    /\ boardState[4] = null
    /\ ret.move # 4
    /\ Completes(boardState, ret.move, "1")

\* no write of `mark` on an empty cell of b makes `mark` the winner
NoWinningWrite(b, mark) ==
    \A p \in Positions : b[p] = null => Verdict([b EXCEPT ![p] = mark]) # mark

\* C11: when no write of either mark on an empty cell makes that mark the winner,
\* getStrategicMove returns 4 if the centre is empty; otherwise an empty corner if some
\* corner is empty; otherwise an empty edge if some edge is empty.  So it returns no edge
\* while the centre or a corner is empty.
PositionalPriority ==
    (/\ ret.op = "getStrategicMove"
     /\ NoWinningWrite(boardState, "0")
     /\ NoWinningWrite(boardState, "1"))
    => IF boardState[4] = null
       THEN ret.move = 4
       ELSE IF \E c \in {0, 2, 6, 8} : boardState[c] = null
       THEN ret.move \in {0, 2, 6, 8} /\ boardState[ret.move] = null
       ELSE IF \E e \in {1, 3, 5, 7} : boardState[e] = null
       THEN ret.move \in {1, 3, 5, 7} /\ boardState[ret.move] = null
       ELSE TRUE

\* the centre was taken, a corner and an edge were empty, and the move went to a corner
CornerBeforeEdge ==
    /\ ret.op = "getStrategicMove"
    /\ NoWinningWrite(boardState, "0")
    /\ NoWinningWrite(boardState, "1")
    /\ CompletePatterns(boardState) = {}
    /\ boardState[4] # null
    /\ \E e \in {1, 3, 5, 7} : boardState[e] = null
    /\ ret.move \in {0, 2, 6, 8}
    /\ boardState[ret.move] = null

-----------------------------------------------------------------------------
(* Properties of all the calls that take a board (SpecCalls) *)

\* C18: simulateWrite, checkGameEnd, getAvailablePositions, evaluateState and
\* calculateBestMove leave the board they are given cell for cell as it was, and a board
\* that simulateWrite returns differs from the one it was given in the written position
\* and in no other.
ArgumentBoardKept ==
    [][ret'.op \in {"simulateWrite", "checkGameEnd", "getAvailablePositions",
                    "evaluateState", "calculateBestMove"} =>
          /\ \A i \in Positions : boardState'[i] = boardState[i]
          /\ (ret'.op = "simulateWrite" /\ ret'.result # nullArray) =>
                /\ ret'.result[ret'.position] = ret'.bit
                /\ \A i \in Positions :
                      ret'.result[i] # boardState[i] <=> i = ret'.position
      ]_vars

\* a write returned a board with one more mark, and the board given still has the cell empty
WriteOnCopy ==
    /\ ret.op = "simulateWrite"
    /\ ret.result # nullArray
    /\ boardState[ret.position] = null
    /\ ret.result[ret.position] = ret.bit
    /\ EmptyCount(boardState) = 3

-----------------------------------------------------------------------------
(* Properties of the configuration calls (SpecConfig) *)

\* C13: adjustDifficulty(v) stores 0 for v below 0, 1 for v above 1 and v itself
\* otherwise (in hundredths: 0, 100, v), so what it stores lies within [0,1]; it changes
\* no other field of the configuration and no counter.
DifficultyClamped ==
    [][ret'.op = "adjustDifficulty" =>
          LET v == ret'.newDifficulty
          IN /\ aiConfig'.difficulty = IF v < 0 THEN 0 ELSE IF v > 100 THEN 100 ELSE v
             /\ aiConfig'.difficulty \in 0 .. 100
             /\ DOMAIN aiConfig' = DOMAIN aiConfig
             /\ \A field \in DOMAIN aiConfig \ {"difficulty"} : aiConfig'[field] = aiConfig[field]
             /\ stats' = stats
      ]_vars

\* adjustDifficulty(-0.5) stored 0 on a player with another preset and counters that moved
NegativeClamped ==
    /\ ret.op = "adjustDifficulty"
    /\ ret.newDifficulty = -50
    /\ aiConfig.difficulty = 0
    /\ aiConfig.thinkingTime = 1200
    /\ stats.totalMoves = 3

\* C14: setPersonality with one of the four preset names stores the difficulty and the
\* thinkingTime of the preset and leaves bit, opponentBit, maxDepth and the counters as
\* they were; with any other name it leaves the whole configuration as it was.
PersonalityPreset ==
    [][ret'.op = "setPersonality" =>
          LET name == ret'.personality
              preset == CASE name = "aggressive" -> <<95, 600>>
                          [] name = "balanced" -> <<85, 800>>
                          [] name = "friendly" -> <<70, 1000>>
                          [] name = "beginner" -> <<50, 1200>>
                          [] OTHER -> << >>
          IN /\ stats' = stats
             /\ IF preset # << >>
                THEN /\ aiConfig'.difficulty = preset[1]
                     /\ aiConfig'.thinkingTime = preset[2]
                     /\ aiConfig'.bit = aiConfig.bit
                     /\ aiConfig'.opponentBit = aiConfig.opponentBit
                     /\ aiConfig'.maxDepth = aiConfig.maxDepth
                     /\ DOMAIN aiConfig' = DOMAIN aiConfig
                ELSE aiConfig' = aiConfig
      ]_vars

\* "friendly" replaced a difficulty set by adjustDifficulty, on counters that moved
PresetApplied ==
    /\ ret.op = "setPersonality"
    /\ ret.personality = "friendly"
    /\ aiConfig.difficulty = 70
    /\ aiConfig.thinkingTime = 1000
    /\ stats.totalMoves = 3

-----------------------------------------------------------------------------
(* Properties of a player called many times (SpecSession) *)

\* C12, as stated: after N calls of calculateBestMove since the constructor or the last
\* resetStats, on any boards, totalMoves is N and the three other counters sum to at
\* most N.
EveryCallCounted ==
    /\ stats.totalMoves = calls.made
    /\ stats.optimalMoves + stats.strategicMoves + stats.randomMoves <= calls.made

\* C12: after N calls of calculateBestMove since the constructor or the last resetStats,
\* totalMoves is the number of those calls that were handed a board with an empty cell
\* (N when every board had one), and the three other counters sum to at most that.
MovesCounted ==
    /\ stats.totalMoves = calls.moved
    /\ calls.moved <= calls.made
    /\ stats.optimalMoves + stats.strategicMoves + stats.randomMoves <= stats.totalMoves

\* three calls after a resetStats, one of them in the middle of a game and none on a
\* full board: three moves counted, two of them in a category
ThreeCounted ==
    /\ calls.made = 3
    /\ calls.moved = 3
    /\ stats.totalMoves = 3
    /\ stats.optimalMoves + stats.strategicMoves + stats.randomMoves = 2
    /\ ret.op = "calculateBestMove"

\* C19: calculateBestMove returns, for a board, a difficulty and the draws it made, what
\* a new player of that difficulty returns for them: the counters, the calls made before
\* and thinkingTime have no part in it.  (A draw the call did not make stands as 0.)
ChoiceIgnoresHistory ==
    ret.op = "calculateBestMove" =>
        ret.chosenMove =
            calculateBestMove(boardState,
                              [InitialConfig EXCEPT !.difficulty = aiConfig.difficulty],
                              InitialStats, ret.random \o <<0, 0>>).chosenMove

\* a third call, on counters that moved and with another thinkingTime, on the board of
\* the first call
SameChoiceLater ==
    /\ ret.op = "calculateBestMove"
    /\ calls.made = 3
    /\ stats.totalMoves = 3
    /\ stats.strategicMoves = 1
    /\ aiConfig.thinkingTime = 1200
    /\ EmptyCount(boardState) = 6
    /\ Len(ret.random) = 1

-----------------------------------------------------------------------------
(* Properties of the application (SpecApp; the scoreboard on SpecGames) *)

\* C20: in both modes and after any events, the first mark written onto the empty board
\* is '1'.
FirstMarkIsOne ==
    [][(EmptyCount(boardState) = 9 /\ EmptyCount(boardState') = 8) =>
          \E i \in Positions : boardState'[i] = "1"
      ]_vars

\* the marks a step writes onto empty cells
Written == {boardState'[i] : i \in {j \in Positions : boardState[j] = null /\ boardState'[j] # null}}

\* C21: in ai-player mode every mark written by a click or a key press is '1', and the
\* automated player writes its '0' only when currentPlayer is '0', under every
\* interleaving of clicks, new-game requests and the delayed AI turn.
HumanWritesOne ==
    [][gameState.currentMode = "ai-player" =>
          /\ ret'.op = "handleCellClick" => Written \subseteq {"1"}
          /\ (ret'.op = "handleAITurn" /\ Written # {}) =>
                (Written = {"0"} /\ currentPlayer = "0")
      ]_vars

\* C22: the players alternate: in every reachable state the board holds as many '1' as
\* '0' marks, or exactly one more '1' than '0', in both modes.
MarksAlternate ==
    \/ MarkCount(boardState, "1") = MarkCount(boardState, "0")
    \/ MarkCount(boardState, "1") = MarkCount(boardState, "0") + 1

\* the step ends a game: a click or the automated player wrote a mark, and checkGameEnd
\* finds the game over on the board it left
GameEnds ==
    /\ ret'.op \in {"handleCellClick", "handleAITurn"}
    /\ Written # {}
    /\ checkGameEnd(boardState').isGameOver

\* C23, as stated: when a game ends in a victory the score of the winning bit increases
\* by exactly 1 and the score of the other bit is unchanged; when it ends in a draw
\* neither score changes and the draws counter is the only counter of sessionStats that
\* increases.
OnlyDrawsIncreases ==
    [][GameEnds =>
          LET winner == checkGameEnd(boardState').winner
              before == gameState.sessionStats
              after == gameState'.sessionStats
          IN IF winner = "draw"
             THEN /\ after["1"] = before["1"]
                  /\ after["0"] = before["0"]
                  /\ after["draws"] > before["draws"]
                  /\ \A key \in DOMAIN before \ {"draws"} : after[key] <= before[key]
             ELSE /\ after[winner] = before[winner] + 1
                  /\ after[otherPlayer(winner)] = before[otherPlayer(winner)]
      ]_vars

\* C23: when a game ends in a victory the session score of the winning bit increases by
\* exactly 1, the score of the other bit and the draws counter are unchanged; when it
\* ends in a draw neither score changes and the draws counter increases by 1; in both
\* cases sessionStats.totalGames increases by 1 as well.
WinnerScores ==
    [][GameEnds =>
          LET winner == checkGameEnd(boardState').winner
              before == gameState.sessionStats
              after == gameState'.sessionStats
          IN /\ after["totalGames"] = before["totalGames"] + 1
             /\ IF winner = "draw"
                THEN /\ after["1"] = before["1"]
                     /\ after["0"] = before["0"]
                     /\ after["draws"] = before["draws"] + 1
                ELSE /\ after[winner] = before[winner] + 1
                     /\ after[otherPlayer(winner)] = before[otherPlayer(winner)]
                     /\ after["draws"] = before["draws"]
      ]_vars

\* a click has filled the board with no triple complete: the first draw of the session
DrawCounted ==
    /\ ret.op = "handleCellClick"
    /\ EmptyCount(boardState) = 0
    /\ checkGameEnd(boardState).winner = "draw"
    /\ gameState.sessionStats["draws"] = 1
    /\ gameState.sessionStats["totalGames"] = 1
    /\ gameState.sessionStats["1"] = 0
    /\ gameState.sessionStats["0"] = 0

\* C24: the counters of sessionStats never decrease and are not reset by handleNewGame
\* or by playing, and handleBackToMenu sets all of them ('1', '0', draws, totalGames) to 0.
ScoreboardPersists ==
    [][/\ ret'.op = "handleBackToMenu" => gameState'.sessionStats = NoGames
       /\ ret'.op # "handleBackToMenu" =>
             \A key \in DOMAIN NoGames :
                gameState'.sessionStats[key] >= gameState.sessionStats[key]
      ]_vars

\* a new game was started after a finished one, and the finished one is still counted
NewGameKeepsScore ==
    /\ ret.op = "handleNewGame"
    /\ gameState.sessionStats["totalGames"] = 1
    /\ gameState.sessionStats["1"] + gameState.sessionStats["0"] = 1

-----------------------------------------------------------------------------
(* Properties of the search (SpecOptimal) *)

\* a write of `mark` on the empty cell p of b ends the game with `mark` the winner
WinningWrite(b, p, mark) ==
    /\ p \in Positions
    /\ b[p] = null
    /\ checkGameEnd(simulateWrite(b, p, mark)).winner = mark

\* C25: on every board where some write of '0' on an empty cell makes '0' the winner at
\* once, getOptimalMove returns such a cell, never a move that only wins later.
SoonestWin ==
    (/\ ret.op = "getOptimalMove"
     /\ \E p \in Positions : WinningWrite(boardState, p, "0"))
    => WinningWrite(boardState, ret.move, "0")

\* the move returned wins at once, and an empty cell before it wins too, but only later
LaterWinPassedOver ==
    /\ ret.op = "getOptimalMove"
    /\ WinningWrite(boardState, ret.move, "0")
    /\ \E p \in Positions :
          /\ p < ret.move
          /\ boardState[p] = null
          /\ ~WinningWrite(boardState, p, "0")
          /\ minimax(simulateWrite(boardState, p, "0"), 0, FALSE,
                     -Infinity, Infinity, aiConfig) > 0

-----------------------------------------------------------------------------
(* Properties of the calls of minimax (SpecSearch) *)

\* C26: every search started by getOptimalMove on a board with k >= 1 empty cells ends,
\* no call of minimax has a depth above k - 1 <= 8, and no call stops at the cut-off
\* depth >= maxDepth (9) on a board on which the game is not over.
SearchEndsAtTerminals ==
    ret.op = "getOptimalMove" =>
        /\ ret.calls = EmptyCount(boardState)
        /\ ret.deepest >= 0
        /\ ret.deepest <= EmptyCount(boardState) - 1
        /\ ret.deepest <= 8
        /\ ~ret.cut

\* the search from the empty board went down to depth 8, where the board is full
FullDepthReached ==
    /\ ret.op = "getOptimalMove"
    /\ boardState = EmptyBoard
    /\ ret.deepest = 8
    /\ ~ret.cut

\* the value of a board for the mark of cfg with the same leaf score, every move of
\* every board searched: no alpha, no beta, no break
RECURSIVE minimaxExhaustive(_, _, _, _)
minimaxExhaustive(b, depth, isMaximizing, cfg) ==
    IF checkGameEnd(b).isGameOver \/ depth >= cfg.maxDepth
    THEN leafScore(b, depth, cfg)
    ELSE LET scores == {minimaxExhaustive(
                           simulateWrite(b, p, IF isMaximizing THEN cfg.bit
                                               ELSE cfg.opponentBit),
                           depth + 1, ~isMaximizing, cfg)
                        : p \in {q \in Positions : b[q] = null}}
         IN IF isMaximizing
            THEN CHOOSE x \in scores : \A y \in scores : y <= x
            ELSE CHOOSE x \in scores : \A y \in scores : x <= y

\* the value of the write of the mark of cfg on the empty cell p of b
ExhaustiveScore(b, p, cfg) ==
    minimaxExhaustive(simulateWrite(b, p, cfg.bit), 0, FALSE, cfg)

\* C27: on every board reached by alternating play with '0' to move (one '1' more than
\* '0', no pattern complete, a cell empty) getOptimalMove returns the position, with the
\* score, that a search without pruning returns: the first empty cell of the greatest
\* value.
PruningKeepsResult ==
    (/\ ret.op = "getOptimalMove"
     /\ MarkCount(boardState, "1") = MarkCount(boardState, "0") + 1
     /\ CompletePatterns(boardState) = {})
    => LET value == [p \in {q \in Positions : boardState[q] = null}
                       |-> ExhaustiveScore(boardState, p, aiConfig)]
       IN /\ ret.move \in DOMAIN value
          /\ ret.score = value[ret.move]
          /\ \A p \in DOMAIN value :
                /\ value[p] <= ret.score
                /\ p < ret.move => value[p] < ret.score

\* a search that did prune, on the board with '1' on cell 0 alone: it returned the centre
PrunedSearch ==
    /\ ret.op = "getOptimalMove"
    /\ boardState = [EmptyBoard EXCEPT ![0] = "1"]
    /\ ret.pruned
    /\ ret.move = 4
    /\ ret.score = 0

-----------------------------------------------------------------------------
(* More properties of calculateBestMove (SpecChoose) *)

\* C28: on every board with an empty cell, whichever branch is taken (opening, minimax,
\* heuristic) and whatever the draws, calculateBestMove returns an index in 0..8 whose
\* cell is empty, so the makeMove of handleAITurn with it does not fail; it is never -1.
BestMoveIsLegal ==
    (ret.op = "calculateBestMove" /\ EmptyCount(boardState) >= 1)
    => /\ ret.chosenMove \in Positions
       /\ boardState[ret.chosenMove] = null
       /\ makeMove(boardState, createBinaryGrid, ret.chosenMove, aiConfig.bit).ok

\* the heuristic branch was taken with the centre occupied, and a draw chose the cell
HeuristicMoveIsLegal ==
    /\ ret.op = "calculateBestMove"
    /\ aiConfig.difficulty = 0
    /\ EmptyCount(boardState) = 6
    /\ boardState[4] # null
    /\ Len(ret.random) = 2
    /\ makeMove(boardState, createBinaryGrid, ret.chosenMove, aiConfig.bit).ok

-----------------------------------------------------------------------------
(* Properties of the games against the automated player (SpecVersus) *)

\* C29: with difficulty 1.0, in a game where '1' moves first with any legal moves and
\* '0' always answers with calculateBestMove, no board reached is a win for '1'.
NeverLoses ==
    aiConfig.difficulty = 100 => checkGameEnd(boardState).winner # "1"

\* a game at difficulty 1.0 that '1' played to the full board without winning it
HeldToADraw ==
    /\ aiConfig.difficulty = 100
    /\ ret.op = "handleCellClick"
    /\ EmptyCount(boardState) = 0
    /\ checkGameEnd(boardState).winner = "draw"
    /\ stats.totalMoves = 4

\* the board with '1' on the cells of `ones`, '0' on the cells of `zeros`
BoardWith(ones, zeros) ==
    [i \in Positions |-> IF i \in ones THEN "1" ELSE IF i \in zeros THEN "0" ELSE null]

\* C30: when '0' takes the heuristic branch on the boards with 6 to 8 empty cells
\* (difficulty 0), there are legal moves of '1', moving first, after which '1' wins:
\* cell 0, then cell 8, then the corner left of 2 and 6.  To cell 0 the heuristic answers
\* the centre; to cell 8 it answers the corner 2 or 6, whatever the draw; and after the
\* third move of '1' every answer of '0' leaves '1' a write that wins.
HeuristicBeatable ==
    (aiConfig.difficulty = 0 /\ ret.op = "handleAITurn")
    => LET before == [boardState EXCEPT ![ret.aiMove] = null]
       IN /\ before = BoardWith({0}, {}) => ret.aiMove = 4
          /\ before = BoardWith({0, 8}, {4}) => ret.aiMove \in {2, 6}
          /\ before \in {BoardWith({0, 8, 6}, {4, 2}), BoardWith({0, 8, 2}, {4, 6})}
                => \E p \in Positions : WinningWrite(boardState, p, "1")

\* '1' has won that game against the heuristic answers of '0'
HeuristicBeaten ==
    /\ aiConfig.difficulty = 0
    /\ ret.op = "handleCellClick"
    /\ checkGameEnd(boardState).winner = "1"
    /\ boardState[0] = "1" /\ boardState[8] = "1" /\ boardState[4] = "0"
    /\ {boardState[2], boardState[6]} = {"0", "1"}
    /\ MarkCount(boardState, "1") = 4
    /\ MarkCount(boardState, "0") = 3

-----------------------------------------------------------------------------
(* Properties of the boards of a game (SpecPlay) *)

\* the cells of pattern k
PatternCells(k) == {winningPatterns[k][j] : j \in 1 .. 3}

\* C31, as stated: in every board of a game in which the marks alternate from '1' and
\* play stops at the first complete pattern, at most one of the 8 patterns is complete.
OnePatternAtMost == Cardinality(CompletePatterns(boardState)) <= 1

\* C31: in every board of such a game at most two patterns are complete; two complete
\* patterns share a cell and hold the same mark, so the order of the patterns decides
\* which cells checkVictoryPatterns reports, never the winner.
OneWinnerAtMost ==
    LET won == CompletePatterns(boardState)
    IN /\ Cardinality(won) <= 2
       /\ \A k \in won :
             /\ boardState[winningPatterns[k][1]] = checkGameEnd(boardState).winner
             /\ \A j \in won : PatternCells(k) \cap PatternCells(j) # {}

\* the last move completed two patterns at once
TwoPatternsComplete ==
    /\ ret.op = "handleCellClick"
    /\ Cardinality(CompletePatterns(boardState)) = 2

\* C32: in every board of such a game all the complete patterns hold the same mark, the
\* one written last, so the winner checkGameEnd reports is the player of the last move.
LastMoverWins ==
    [][CompletePatterns(boardState') # {} =>
          /\ \A k \in CompletePatterns(boardState') :
                Written = {boardState'[winningPatterns[k][1]]}
          /\ Written = {checkGameEnd(boardState').winner}
      ]_vars

\* '0' wrote the last mark by hand and completed a pattern with '1' holding five cells
ZeroWinsLast ==
    /\ ret.op = "handleCellClick"
    /\ mode = "free"
    /\ checkGameEnd(boardState).winner = "0"
    /\ currentPlayer = "0"
    /\ MarkCount(boardState, "1") = 4
    /\ MarkCount(boardState, "0") = 4

-----------------------------------------------------------------------------
(* Properties of the game board (SpecBoard) *)

\* C33: between two resets (initialize resets too) an occupied cell never changes:
\* makeMove on an index outside 0..8 or on a cell that is not null returns false and
\* leaves boardState as it was; a makeMove on an empty cell changes exactly that cell,
\* from null to the given mark, and it succeeds (returns true) exactly when the grid has
\* been created: before initialize it ends with a TypeError after the write.
OccupiedCellsKept ==
    [][/\ ret'.op \notin {"reset", "initialize"} =>
             \A i \in Positions : boardState[i] # null => boardState'[i] = boardState[i]
       /\ ret'.op = "makeMove" =>
             IF ret'.cellIndex \notin Positions \/ boardState[ret'.cellIndex] # null
             THEN ~ret'.ok /\ ~ret'.threw /\ boardState' = boardState
             ELSE /\ ret'.ok <=> boardElement = createBinaryGrid
                  /\ ret'.threw <=> boardElement = NoCells
                  /\ boardState[ret'.cellIndex] = null
                  /\ boardState'[ret'.cellIndex] = ret'.player
                  /\ \A i \in Positions \ {ret'.cellIndex} : boardState'[i] = boardState[i]
      ]_vars

\* with the grid created, a makeMove of '0' on a cell that holds '1' returned false, and
\* the cell still holds '1'
OverwriteRefused ==
    /\ ret.op = "makeMove"
    /\ boardElement = createBinaryGrid
    /\ ~ret.ok
    /\ ~ret.threw
    /\ ret.cellIndex \in Positions
    /\ ret.player = "0"
    /\ boardState[ret.cellIndex] = "1"

-----------------------------------------------------------------------------
(* Properties of the delayed AI turn in the application (SpecApp, SpecAppFair; *)
(* the count of the games on SpecGames)                                       *)

\* C34: at most one AI turn is pending at any time: while the delayed move of one
\* handleAITurn has not been executed no second handleAITurn is started, under every
\* interleaving of clicks, key presses, new-game and back-to-menu requests with the timer.
OneTurnPending == timers.aiTurn <= 1

\* C35: while isGameActive is false (the game is over or the session is at the menu) no
\* mark is written to the board until handleNewGame or handleModeSelection starts a new
\* game; a delayed AI move never lands on a finished or abandoned game.
NoMarkWhenInactive ==
    [][~gameState.isGameActive => Written = {}]_vars

\* C36: every finished game is counted once: handleGameEnd runs only on a game that was
\* still active and on a board that was not yet over, so totalGames increases by exactly
\* 1 per finished game, and totalGames always equals wins of '1' + wins of '0' + draws.
CountedOnce ==
    /\ [](gameState.sessionStats["totalGames"] =
            gameState.sessionStats["1"] + gameState.sessionStats["0"]
               + gameState.sessionStats["draws"])
    /\ [][GameEnds =>
             /\ gameState.isGameActive
             /\ ~checkGameEnd(boardState).isGameOver
             /\ gameState'.sessionStats["totalGames"] =
                   gameState.sessionStats["totalGames"] + 1
         ]_vars

\* a click or key press of the human in ai-player mode wrote a mark and left the game running
HumanMoveLeavesGameRunning ==
    /\ gameState.currentMode = "ai-player"
    /\ ret'.op = "handleCellClick"
    /\ Written = {"1"}
    /\ ~checkGameEnd(boardState').isGameOver

\* the step writes exactly one mark, a '0', and changes no other cell
WritesOneZero ==
    /\ Written = {"0"}
    /\ MarkCount(boardState', "0") = MarkCount(boardState, "0") + 1
    /\ MarkCount(boardState', "1") = MarkCount(boardState, "1")

-----------------------------------------------------------------------------
(* Properties of the notifications (SpecNotify) *)

\* the notifications waiting in the queue
Waiting == {notifications.notificationQueue[i] :
               i \in 1 .. Len(notifications.notificationQueue)}

\* C38: notifications are serialised: at most one notification element is in the
\* document at a time, one is there exactly while isShowingNotification, and none waits
\* while none is displayed; a call of showNotification made while one is displayed
\* appends its arguments to the queue and displays nothing, one made while none is
\* displayed displays its own; the queue changes in no other way than by the 300 ms timer
\* taking its head to display it (so the notifications are displayed in the order of the
\* calls, none dropped, none twice), and given that the timers fire every notification
\* that waits is eventually displayed.
NotificationsSerialised ==
    /\ [](/\ Len(notifications.body) <= 1
          /\ notifications.isShowingNotification = (notifications.body # <<>>)
          /\ ~notifications.isShowingNotification => notifications.notificationQueue = <<>>)
    /\ [][/\ (ret'.op = "showNotification" /\ notifications.isShowingNotification) =>
                /\ notifications'.notificationQueue =
                      Append(notifications.notificationQueue,
                             [message |-> ret'.message, type |-> ret'.type])
                /\ notifications'.body = notifications.body
                /\ notifications'.hideTimers = notifications.hideTimers
          /\ (ret'.op = "showNotification" /\ ~notifications.isShowingNotification) =>
                /\ notifications'.notificationQueue = notifications.notificationQueue
                /\ notifications'.body = <<[message |-> ret'.message, type |-> ret'.type]>>
          /\ ret'.op = "hideNotification" =>
                /\ notifications'.notificationQueue = notifications.notificationQueue
                /\ notifications'.body = notifications.body
          /\ ret'.op = "removeNotification" =>
                IF notifications.notificationQueue = <<>>
                THEN /\ notifications'.notificationQueue = <<>>
                     /\ notifications'.body = <<>>
                ELSE /\ notifications'.notificationQueue =
                           Tail(notifications.notificationQueue)
                     /\ notifications'.body = <<Head(notifications.notificationQueue)>>
         ]_vars
    /\ \A input \in NotificationInputs :
          (input \in Waiting) ~> (notifications.body = <<input>>)

\* two notifications waited behind the one displayed; the 300 ms timer has just put the
\* first of them on display, and the second, a different one, still waits
QueuedShownInOrder ==
    /\ ret.op = "removeNotification"
    /\ Len(notifications.body) = 1
    /\ Len(notifications.notificationQueue) = 1
    /\ notifications.body[1] # notifications.notificationQueue[1]
    /\ notifications.hideTimers = notifications.body

-----------------------------------------------------------------------------
(* Properties of the fallback of the heuristic (SpecChoose) *)

\* C39: on a board with at least one empty cell getHeuristicMove returns an empty cell
\* from the centre, the corners or the edges and leaves the counters as they were: its
\* fallback branch, the only place that increments randomMoves, is reached on a full
\* board only.  calculateBestMove never gets there, so randomMoves is 0 before and after
\* every call of the Move Selector.
FallbackUnreached ==
    /\ stats.randomMoves = 0
    /\ \A r \in Draws :
          LET heuristic == getHeuristicMove(boardState, stats, <<r>>)
          IN IF EmptyCount(boardState) > 0
             THEN /\ heuristic.stats = stats
                  /\ heuristic.move \in Positions
                  /\ boardState[heuristic.move] = null
             ELSE /\ heuristic.stats.randomMoves = stats.randomMoves + 1
                  /\ heuristic.move = undefined

\* calculateBestMove went down the heuristic path on a board whose centre was taken, with
\* no cell that wins for either mark, and returned a corner; only totalMoves was counted
HeuristicTookCorner ==
    /\ ret.op = "calculateBestMove"
    /\ aiConfig.difficulty = 0
    /\ EmptyCount(boardState) = 6
    /\ boardState[4] # null
    /\ NoWinningWrite(boardState, "0")
    /\ NoWinningWrite(boardState, "1")
    /\ ret.chosenMove \in {0, 2, 6, 8}
    /\ stats = [InitialStats EXCEPT !.totalMoves = 1]

====
